---- MODULE Spec2Model ----
(***************************************************************************)
(* A model of jasmin_ldap: the connection pool (core.py), the exception    *)
(* hierarchy (exceptions.py), the cache of a query (query.py), the         *)
(* splitting of a filter between the directory and Python (query.py), the  *)
(* queries derived from a query (query.py), the nodes of a filter          *)
(* (filters.py) and the aggregations (aggregations.py).                    *)
(***************************************************************************)
EXTENDS Integers, Sequences, FiniteSets, TLC

(***************************************************************************)
(* Bounds of the model.                                                    *)
(***************************************************************************)
\* Connection objects the server can hand out during one run.
MaxConns == 3
\* maxsize of the queue the pool is constructed with (core.py:114, argument q).
QueueMax == 1
\* Calls of close_all during one run.
MaxCloseAll == 1
\* Fetch operations applied to one query during one run.
MaxOps == 3
\* Records a search returns at most.
MaxRecords == 2
\* Remote searches one Query instance issues at most.
MaxSearches == 2
\* Records of the sequence an ordering is applied to, at most.
MaxOrdered == 3
\* Records of the sequence a slice is taken of, at most.
MaxSliceSource == 10
\* The greatest low, high and step of a slice.
MaxLow == 3
MaxHigh == 6
MaxStep == 3
\* Records of the sequence distinct() is applied to, at most.
MaxDistinct == 3
\* Arguments given to a transformation of the empty query, at most.
MaxArgs == 2
\* Values of an 'in' lookup, at most.
MaxIn == 3
\* Records of the query aggregate() sweeps, at most, and calls of aggregate().
MaxAggRecords == 3
MaxSweeps == 2
\* Entries of the directory an annotated query reads, and annotations, at most.
MaxAnnotated == 2
MaxAnnotations == 2
\* Fetches of Query instances of one connection or pool, at most.
MaxFetches == 2
\* Records of the source of a slice whose consumption is counted.
MaxStreamSource == 5

Threads == {"t1", "t2"}
Conns == 1..MaxConns
Queues == 1..(MaxCloseAll + 1)
NoConn == 0

VARIABLES
    queue,       \* ConnectionPool._queue: the queue object the pool refers to
    qitems,      \* qitems[q]: the connections stored in queue object q, oldest first
    qmaxsize,    \* qmaxsize[q]: the maxsize queue object q was constructed with
    nqueues,     \* queue objects constructed so far
    connState,   \* connState[c]: "unborn", "open" or "closed"
    closeAllDone,\* calls of close_all that have returned
    pc,          \* pc[t]: where thread t stands
    qref,        \* qref[t]: the queue object the running method read from self._queue
    newq,        \* newq[t]: the queue object close_all constructed
    ctx,         \* ctx[t]: the frame of connection() in thread t, with its history
    directory,   \* the records the directory holds under the query's base, in the order a search returns them
    hasCache,    \* hasattr(query, '_cache')
    cache,       \* query._cache
    searches,    \* remote searches issued for the query
    completed,   \* remote searches that ran to their end
    firstFetch,  \* the records of the first search that ran to its end
    searchesAtFirst, \* the value of searches when that search ended
    nops,        \* fetch operations applied to the query
    last,        \* the last fetch operation and what it gave
    fnode,       \* the node given to Query.filter
    frecord,     \* a record of the directory under the query's base
    caseIgnore,  \* the directory compares the values of an attribute without regard to case
    fphase,      \* "new", "filtered", "ran" or "done"
    fquery,      \* the query Query.filter returned
    accepted,    \* the record is among the results of that query
    direct,      \* the node, evaluated against the record itself
    chainDir,    \* the records the directory holds, in the order a search returns them
    shared,      \* the two derived queries wrap one and the same Query instance
    rootCache,   \* rootCache[r]: _cache of Query instance r (has: the attribute exists)
    rootSearches,\* rootSearches[r]: remote searches issued by Query instance r
    derivedCache,\* derivedCache[d]: _cache of derived query d
    chainLast,   \* the last iteration of a derived query and what it gave
    callIn,      \* the arguments of the call under study
    callDone,    \* the call has been made
    callOut      \* what the call returned or raised

poolVars == <<queue, qitems, qmaxsize, nqueues, connState, closeAllDone,
              pc, qref, newq, ctx>>

queryVars == <<directory, hasCache, cache, searches, completed, firstFetch,
               searchesAtFirst, nops, last>>

filterVars == <<fnode, frecord, caseIgnore, fphase, fquery, accepted, direct>>

chainVars == <<chainDir, shared, rootCache, rootSearches, derivedCache, chainLast>>

callVars == <<callIn, callDone, callOut>>

nonPoolVars == <<queryVars, filterVars, chainVars, callVars>>
nonQueryVars == <<poolVars, filterVars, chainVars, callVars>>
nonFilterVars == <<poolVars, queryVars, chainVars, callVars>>
nonChainVars == <<poolVars, queryVars, filterVars, callVars>>
nonCallVars == <<poolVars, queryVars, filterVars, chainVars>>

vars == <<queue, qitems, qmaxsize, nqueues, connState, closeAllDone,
          pc, qref, newq, ctx,
          directory, hasCache, cache, searches, completed, firstFetch,
          searchesAtFirst, nops, last,
          fnode, frecord, caseIgnore, fphase, fquery, accepted, direct,
          chainDir, shared, rootCache, rootSearches, derivedCache, chainLast,
          callIn, callDone, callOut>>

(***************************************************************************)
(* exceptions.py, with the builtin classes the pool's clauses refer to.    *)
(***************************************************************************)
Bases(e) ==
    CASE e = "LDAPError"                -> {"Exception"}
      [] e = "ConnectionError"          -> {"LDAPError"}
      [] e = "NoServerAvailableError"   -> {"ConnectionError"}
      [] e = "OperationalError"         -> {"LDAPError"}
      [] e = "OperationNotAllowedError" -> {"OperationalError"}
      [] e = "AuthenticationError"      -> {"OperationalError", "ValueError"}
      [] e = "NoSuchObjectError"        -> {"OperationalError", "ValueError"}
      [] e = "ObjectAlreadyExistsError" -> {"OperationalError", "ValueError"}
      [] e = "PermissionDeniedError"    -> {"OperationalError"}
      [] e = "SchemaViolationError"     -> {"OperationalError", "ValueError"}
      [] e = "ValueError"               -> {"Exception"}
      [] e = "Exception"                -> {"BaseException"}
      [] e = "KeyboardInterrupt"        -> {"BaseException"}
      [] e = "GeneratorExit"            -> {"BaseException"}
      [] OTHER                          -> {}

RECURSIVE IsSubclass(_, _)
IsSubclass(e, cls) == e = cls \/ \E b \in Bases(e) : IsSubclass(b, cls)

\* What the body of a with-block can end with, one error of each kind: the
\* base LDAPError, a ConnectionError, two OperationalErrors (one of them a
\* ValueError too), an error of the caller's own, and the two ways an
\* iteration in flight is cut short (an interrupt, the close of a generator).
BodyErrors ==
    {"LDAPError", "NoServerAvailableError", "NoSuchObjectError",
     "PermissionDeniedError", "ValueError", "KeyboardInterrupt", "GeneratorExit"}
Outcomes == {"ok"} \cup BodyErrors

(***************************************************************************)
(* ConnectionPool                                                          *)
(***************************************************************************)
\* Server.authenticate: a Connection, an AuthenticationError for a failed
\* bind, an LDAPError for any other failure of the client library.
AuthResults == {"Connection", "AuthenticationError", "LDAPError"}

\* The servers a pool holds: self._server, and no other.
Servers == <<"server">>

\* queue.Queue.put_nowait raises Full only for a positive maxsize.
Full(q) == qmaxsize[q] > 0 /\ Len(qitems[q]) >= qmaxsize[q]

FreshConns == {c \in Conns : connState[c] = "unborn"}
FreshConn == CHOOSE c \in FreshConns : \A d \in FreshConns : c <= d

NoCtx == [conn |-> NoConn, outcome |-> "none", rel |-> 0, cls |-> 0,
          fate |-> "none", raised |-> "none", acqSaw |-> 0, auths |-> 0,
          tried |-> <<>>, relSaw |-> 0, relAfter |-> FALSE]

PoolInit ==
    /\ queue = 1
    /\ qitems = [q \in Queues |-> <<>>]
    /\ qmaxsize = [q \in Queues |-> IF q = 1 THEN QueueMax ELSE 0]
    /\ nqueues = 1
    /\ connState = [c \in Conns |-> "unborn"]
    /\ closeAllDone = 0
    /\ pc = [t \in Threads |-> "idle"]
    /\ qref = [t \in Threads |-> 1]
    /\ newq = [t \in Threads |-> 1]
    /\ ctx = [t \in Threads |-> NoCtx]

\* connection(): conn = self.acquire() begins; acquire reads self._queue.
AcquireLoad(t) ==
    /\ pc[t] = "idle"
    /\ qref' = [qref EXCEPT ![t] = queue]
    /\ pc' = [pc EXCEPT ![t] = "acquire_get"]
    /\ UNCHANGED <<queue, qitems, qmaxsize, nqueues, connState, closeAllDone,
                   newq, ctx>>
    /\ UNCHANGED nonPoolVars

\* A variant of AcquireIdle that hands out the oldest idle connection and
\* leaves it in the queue.
AcquireIdlePeek(t) ==
    /\ pc[t] = "acquire_get"
    /\ qitems[qref[t]] # <<>>
    /\ ctx' = [ctx EXCEPT ![t].conn = Head(qitems[qref[t]]),
                          ![t].acqSaw = Len(qitems[qref[t]])]
    /\ pc' = [pc EXCEPT ![t] = "body"]
    /\ UNCHANGED <<queue, qitems, qmaxsize, nqueues, connState, closeAllDone, qref, newq>>
    /\ UNCHANGED nonPoolVars

\* acquire: get_nowait() returns the oldest idle connection.
AcquireIdle(t) ==
    /\ pc[t] = "acquire_get"
    /\ qitems[qref[t]] # <<>>
    /\ ctx' = [ctx EXCEPT ![t].conn = Head(qitems[qref[t]]),
                          ![t].acqSaw = Len(qitems[qref[t]])]
    /\ qitems' = [qitems EXCEPT ![qref[t]] = Tail(@)]
    /\ pc' = [pc EXCEPT ![t] = "body"]
    /\ UNCHANGED <<queue, qmaxsize, nqueues, connState, closeAllDone, qref, newq>>
    /\ UNCHANGED nonPoolVars

\* A variant of AcquireNew that authenticates whether or not the queue is
\* empty.
AcquireNewAlways(t) ==
    /\ pc[t] = "acquire_get"
    /\ \E res \in AuthResults :
        IF res = "Connection"
        THEN /\ FreshConns # {}
             /\ connState' = [connState EXCEPT ![FreshConn] = "open"]
             /\ ctx' = [ctx EXCEPT ![t].conn = FreshConn,
                                   ![t].acqSaw = Len(qitems[qref[t]]),
                                   ![t].auths = @ + 1,
                                   ![t].tried = Append(@, Servers[1])]
             /\ pc' = [pc EXCEPT ![t] = "body"]
        ELSE /\ ctx' = [ctx EXCEPT ![t].raised = res,
                                   ![t].acqSaw = Len(qitems[qref[t]]),
                                   ![t].auths = @ + 1,
                                   ![t].tried = Append(@, Servers[1])]
             /\ pc' = [pc EXCEPT ![t] = "acquire_failed"]
             /\ UNCHANGED connState
    /\ UNCHANGED <<queue, qitems, qmaxsize, nqueues, closeAllDone, qref, newq>>
    /\ UNCHANGED nonPoolVars

\* acquire: get_nowait() raised Empty; self._server.authenticate(...) returns
\* a new connection or raises.
AcquireNew(t) ==
    /\ pc[t] = "acquire_get"
    /\ qitems[qref[t]] = <<>>
    /\ \E res \in AuthResults :
        IF res = "Connection"
        THEN /\ FreshConns # {}
             /\ connState' = [connState EXCEPT ![FreshConn] = "open"]
             /\ ctx' = [ctx EXCEPT ![t].conn = FreshConn,
                                   ![t].acqSaw = Len(qitems[qref[t]]),
                                   ![t].auths = @ + 1,
                                   ![t].tried = Append(@, Servers[1])]
             /\ pc' = [pc EXCEPT ![t] = "body"]
        ELSE /\ ctx' = [ctx EXCEPT ![t].raised = res,
                                   ![t].acqSaw = Len(qitems[qref[t]]),
                                   ![t].auths = @ + 1,
                                   ![t].tried = Append(@, Servers[1])]
             /\ pc' = [pc EXCEPT ![t] = "acquire_failed"]
             /\ UNCHANGED connState
    /\ UNCHANGED <<queue, qitems, qmaxsize, nqueues, closeAllDone, qref, newq>>
    /\ UNCHANGED nonPoolVars

\* The except clauses of connection(), in the order they are written.
ExceptClauses == <<"OperationalError", "LDAPError", "Exception">>

\* A variant of Handler: the last clause that catches e.
HandlerLast(e) ==
    IF \E i \in 1..Len(ExceptClauses) : IsSubclass(e, ExceptClauses[i])
    THEN CHOOSE i \in 1..Len(ExceptClauses) :
            /\ IsSubclass(e, ExceptClauses[i])
            /\ \A j \in (i + 1)..Len(ExceptClauses) : ~IsSubclass(e, ExceptClauses[j])
    ELSE 0

\* The first clause that catches e (0: none does).
Handler(e) ==
    IF \E i \in 1..Len(ExceptClauses) : IsSubclass(e, ExceptClauses[i])
    THEN CHOOSE i \in 1..Len(ExceptClauses) :
            /\ IsSubclass(e, ExceptClauses[i])
            /\ \A j \in 1..(i - 1) : ~IsSubclass(e, ExceptClauses[j])
    ELSE 0

\* What connection() does with conn once the body has ended with o.
Disposal(o) ==
    CASE o = "ok"        -> "release"
      [] Handler(o) = 1  -> "release"
      [] Handler(o) = 2  -> "close"
      [] Handler(o) = 3  -> "release"
      [] OTHER           -> "nothing"

\* The body of the with-block ends: normally, or with an error thrown into
\* the generator at its yield.
Body(t) ==
    /\ pc[t] = "body"
    /\ \E o \in Outcomes :
        /\ ctx' = [ctx EXCEPT ![t].outcome = o,
                              ![t].raised = IF o = "ok" THEN "none" ELSE o]
        /\ pc' = [pc EXCEPT ![t] =
                    CASE Disposal(o) = "release" -> "release_load"
                      [] Disposal(o) = "close"   -> "close"
                      [] OTHER                   -> "exit"]
    /\ UNCHANGED <<queue, qitems, qmaxsize, nqueues, connState, closeAllDone,
                   qref, newq>>
    /\ UNCHANGED nonPoolVars

\* release: reads self._queue.
ReleaseLoad(t) ==
    /\ pc[t] = "release_load"
    /\ qref' = [qref EXCEPT ![t] = queue]
    /\ ctx' = [ctx EXCEPT ![t].relAfter = (closeAllDone > 0)]
    /\ pc' = [pc EXCEPT ![t] = "release_put"]
    /\ UNCHANGED <<queue, qitems, qmaxsize, nqueues, connState, closeAllDone, newq>>
    /\ UNCHANGED nonPoolVars

\* release: put_nowait(conn), and conn.close() when it raises Full.
ReleasePut(t) ==
    /\ pc[t] = "release_put"
    /\ IF Full(qref[t])
       THEN /\ connState' = [connState EXCEPT ![ctx[t].conn] = "closed"]
            /\ ctx' = [ctx EXCEPT ![t].rel = @ + 1,
                                  ![t].fate = "closed",
                                  ![t].relSaw = Len(qitems[qref[t]])]
            /\ UNCHANGED qitems
       ELSE /\ qitems' = [qitems EXCEPT ![qref[t]] = Append(@, ctx[t].conn)]
            /\ ctx' = [ctx EXCEPT ![t].rel = @ + 1,
                                  ![t].fate = "pooled",
                                  ![t].relSaw = Len(qitems[qref[t]])]
            /\ UNCHANGED connState
    /\ pc' = [pc EXCEPT ![t] = "exit"]
    /\ UNCHANGED <<queue, qmaxsize, nqueues, closeAllDone, qref, newq>>
    /\ UNCHANGED nonPoolVars

\* connection(): the clause for LDAPError closes the connection.
CloseConn(t) ==
    /\ pc[t] = "close"
    /\ connState' = [connState EXCEPT ![ctx[t].conn] = "closed"]
    /\ ctx' = [ctx EXCEPT ![t].cls = @ + 1, ![t].fate = "closed"]
    /\ pc' = [pc EXCEPT ![t] = "exit"]
    /\ UNCHANGED <<queue, qitems, qmaxsize, nqueues, closeAllDone, qref, newq>>
    /\ UNCHANGED nonPoolVars

\* The with-statement is left (or acquire has raised): the frame is dropped.
Return(t) ==
    /\ pc[t] \in {"exit", "acquire_failed"}
    /\ ctx' = [ctx EXCEPT ![t] = NoCtx]
    /\ pc' = [pc EXCEPT ![t] = "idle"]
    /\ UNCHANGED <<queue, qitems, qmaxsize, nqueues, connState, closeAllDone,
                   qref, newq>>
    /\ UNCHANGED nonPoolVars

\* close_all: the right-hand side of the swap reads self._queue and
\* constructs queue.Queue(0).
CloseAllLoad(t) ==
    /\ pc[t] = "idle"
    /\ closeAllDone + Cardinality({u \in Threads :
            pc[u] \in {"close_all_store", "close_all_drain"}}) < MaxCloseAll
    /\ qref' = [qref EXCEPT ![t] = queue]
    /\ newq' = [newq EXCEPT ![t] = nqueues + 1]
    /\ nqueues' = nqueues + 1
    /\ qmaxsize' = [qmaxsize EXCEPT ![nqueues + 1] = 0]
    /\ pc' = [pc EXCEPT ![t] = "close_all_store"]
    /\ UNCHANGED <<queue, qitems, connState, closeAllDone, ctx>>
    /\ UNCHANGED nonPoolVars

\* close_all: the new queue is stored in self._queue.
CloseAllStore(t) ==
    /\ pc[t] = "close_all_store"
    /\ queue' = newq[t]
    /\ pc' = [pc EXCEPT ![t] = "close_all_drain"]
    /\ UNCHANGED <<qitems, qmaxsize, nqueues, connState, closeAllDone, qref,
                   newq, ctx>>
    /\ UNCHANGED nonPoolVars

\* close_all: one turn of the loop closes the oldest connection of the old
\* queue, or finds it empty and returns.
CloseAllDrain(t) ==
    /\ pc[t] = "close_all_drain"
    /\ IF qitems[qref[t]] # <<>>
       THEN /\ connState' = [connState EXCEPT ![Head(qitems[qref[t]])] = "closed"]
            /\ qitems' = [qitems EXCEPT ![qref[t]] = Tail(@)]
            /\ UNCHANGED <<pc, closeAllDone>>
       ELSE /\ pc' = [pc EXCEPT ![t] = "idle"]
            /\ closeAllDone' = closeAllDone + 1
            /\ UNCHANGED <<connState, qitems>>
    /\ UNCHANGED <<queue, qmaxsize, nqueues, qref, newq, ctx>>
    /\ UNCHANGED nonPoolVars

NextPool ==
    \E t \in Threads :
        \/ AcquireLoad(t)
        \/ AcquireIdle(t)
        \/ AcquireNew(t)
        \/ Body(t)
        \/ ReleaseLoad(t)
        \/ ReleasePut(t)
        \/ CloseConn(t)
        \/ Return(t)
        \/ CloseAllLoad(t)
        \/ CloseAllStore(t)
        \/ CloseAllDrain(t)


(***************************************************************************)
(* QueryBase: the cache of a query and the operations that fetch.          *)
(***************************************************************************)
Records == {"r1", "r2", "r3"}

RECURSIVE SeqsUpTo(_, _)
\* The sequences of distinct members of S of length n at most.
SeqsUpTo(S, n) ==
    IF n = 0 THEN {<<>>}
    ELSE LET shorter == SeqsUpTo(S, n - 1) IN
         shorter \cup
         {Append(q, x) : q \in {p \in shorter : Len(p) = n - 1},
                         x \in S} 

NoDup(q) == \A i, j \in 1..Len(q) : i # j => q[i] # q[j]
Directories == {q \in SeqsUpTo(Records, MaxRecords) : NoDup(q)}

\* An int or None: <<n>> is the int n, <<>> is None.
NoHigh == <<>>

RECURSIVE SliceFromThrough(_, _, _, _, _)
\* A variant of SliceFrom that stops after position high, not before it.
SliceFromThrough(src, pos, low, high, step) ==
    IF pos >= Len(src) THEN <<>>
    ELSE IF pos < low THEN SliceFromThrough(src, pos + 1, low, high, step)
    ELSE IF high # NoHigh /\ pos > high[1] THEN <<>>
    ELSE IF (pos - low) % step # 0 THEN SliceFromThrough(src, pos + 1, low, high, step)
    ELSE <<src[pos + 1]>> \o SliceFromThrough(src, pos + 1, low, high, step)

RECURSIVE SliceFrom(_, _, _, _, _)
\* SlicedQuery._run_query from position pos of the underlying sequence.
SliceFrom(src, pos, low, high, step) ==
    IF pos >= Len(src) THEN <<>>
    ELSE IF pos < low THEN SliceFrom(src, pos + 1, low, high, step)
    ELSE IF high # NoHigh /\ pos >= high[1] THEN <<>>
    ELSE IF (pos - low) % step # 0 THEN SliceFrom(src, pos + 1, low, high, step)
    ELSE <<src[pos + 1]>> \o SliceFrom(src, pos + 1, low, high, step)

\* SlicedQuery.__init__ accepts the bounds.
SliceAccepted(low, high, step) ==
    ~(low < 0 \/ (high # NoHigh /\ high[1] < 0) \/ step < 1)

\* x or default, of an int or None.
OrDefault(x, default) == IF x = <<>> \/ x[1] = 0 THEN default ELSE x[1]

\* slice(start, stop, step)
SliceKey(start, stop, step) == [start |-> start, stop |-> stop, step |-> step]
\* The slice q[key] builds for an int: key:key + 1.
IntKey(k) == SliceKey(<<k>>, <<k + 1>>, <<>>)

\* __getitem__: low, high, step of a slice.
SliceArgs(key) ==
    [low |-> OrDefault(key.start, 0), high |-> key.stop,
     step |-> OrDefault(key.step, 1)]

NoSlice == [low |-> 0, high |-> NoHigh, step |-> 0]

\* SlicedQuery(q, low, high, step), then iterated over the records src of q:
\* the error of __init__, or the slice made and the records it yields.
SlicedQuery(src, low, high, step) ==
    IF SliceAccepted(low, high, step)
    THEN [op |-> "slice", raised |-> "none", created |-> TRUE,
          slice |-> [low |-> low, high |-> high, step |-> step],
          records |-> SliceFrom(src, 0, low, high, step)]
    ELSE [op |-> "slice", raised |-> "TypeError", created |-> FALSE,
          slice |-> NoSlice, records |-> <<>>]

\* q[key] for a slice, then iterated.
GetSlice(src, key) ==
    SlicedQuery(src, SliceArgs(key).low, SliceArgs(key).high, SliceArgs(key).step)

\* next(iter(seq), None), None being the empty sequence.
FirstOrNone(q) == IF q = <<>> THEN <<>> ELSE <<q[1]>>

\* Count: reset() and one accumulate() per record.
CountOver(q) == Len(q)

NoNum == -1
Ops == {"iter", "one", "len", "getitem", "aggregate"}
\* Integer keys tried with q[key].
Keys == -1..MaxRecords

\* What operation op (with key k) gives when the query's records are c.
ResultOf(op, k, c) ==
    CASE op = "iter"      -> [recs |-> c, num |-> NoNum]
      [] op = "one"       -> [recs |-> FirstOrNone(c), num |-> NoNum]
      [] op = "len"       -> [recs |-> <<>>, num |-> Len(c)]
      [] op = "getitem"   -> [recs |-> FirstOrNone(GetSlice(c, IntKey(k)).records),
                              num |-> NoNum]
      [] op = "aggregate" -> [recs |-> <<>>, num |-> CountOver(c)]

NoResult == [recs |-> <<>>, num |-> NoNum]
NoLast == [op |-> "none", key |-> 0, issued |-> FALSE, hadCache |-> FALSE,
           error |-> "none", result |-> NoResult]

\* A query just constructed: nothing fetched, nothing cached.
QueryNew ==
    /\ hasCache = FALSE
    /\ cache = <<>>
    /\ searches = 0
    /\ completed = 0
    /\ firstFetch = <<>>
    /\ searchesAtFirst = 0
    /\ nops = 0
    /\ last = NoLast

QueryInit == directory \in Directories /\ QueryNew

\* No query is used.
QueryUnused == directory = <<>> /\ QueryNew

\* The directory changes between two operations.
DirectoryChange ==
    /\ \E d \in Directories : d # directory /\ directory' = d
    /\ UNCHANGED <<hasCache, cache, searches, completed, firstFetch,
                   searchesAtFirst, nops, last>>
    /\ UNCHANGED nonQueryVars

\* A variant of CacheHit: the cached records are never found.
CacheMiss == FALSE

\* _cached finds the snapshot of an earlier fetch.
CacheHit == hasCache

\* An operation that reads self._cached: served from the cache when there is
\* one; otherwise list(self._run_query()) issues the search, which either
\* runs to its end, and its records are cached, or raises, and nothing is.
Fetch(op, k) ==
    /\ nops < MaxOps
    /\ nops' = nops + 1
    /\ UNCHANGED directory
    /\ IF CacheHit
       THEN /\ last' = [op |-> op, key |-> k, issued |-> FALSE,
                        hadCache |-> hasCache, error |-> "none",
                        result |-> ResultOf(op, k, cache)]
            /\ UNCHANGED <<hasCache, cache, searches, completed, firstFetch,
                           searchesAtFirst>>
       ELSE /\ searches' = searches + 1
            /\ \/ /\ cache' = directory
                  /\ hasCache' = TRUE
                  /\ completed' = completed + 1
                  /\ firstFetch' = IF completed = 0 THEN directory ELSE firstFetch
                  /\ searchesAtFirst' =
                        IF completed = 0 THEN searches + 1 ELSE searchesAtFirst
                  /\ last' = [op |-> op, key |-> k, issued |-> TRUE,
                              hadCache |-> hasCache, error |-> "none",
                              result |-> ResultOf(op, k, directory)]
               \/ /\ last' = [op |-> op, key |-> k, issued |-> TRUE,
                              hadCache |-> hasCache, error |-> "LDAPError",
                              result |-> NoResult]
                  /\ UNCHANGED <<hasCache, cache, completed, firstFetch,
                                 searchesAtFirst>>
    /\ UNCHANGED nonQueryVars

\* for attrs in query / list(query)
Iterate == Fetch("iter", 0)

\* query.one()
One == Fetch("one", 0)

\* len(query)
Length == Fetch("len", 0)

\* query[k]: self[k:k + 1].one(); the slice of a negative key is refused
\* before anything is fetched.
GetItem ==
    \E k \in Keys :
        IF GetSlice(<<>>, IntKey(k)).created
        THEN Fetch("getitem", k)
        ELSE /\ nops < MaxOps
             /\ nops' = nops + 1
             /\ last' = [op |-> "getitem", key |-> k, issued |-> FALSE,
                         hadCache |-> hasCache, error |-> "TypeError",
                         result |-> NoResult]
             /\ UNCHANGED <<directory, hasCache, cache, searches, completed,
                            firstFetch, searchesAtFirst>>
             /\ UNCHANGED nonQueryVars

\* query.aggregate(count = Count())
Aggregate == Fetch("aggregate", 0)

NextQuery ==
    \/ DirectoryChange
    \/ Iterate
    \/ One
    \/ Length
    \/ GetItem
    \/ Aggregate

(***************************************************************************)
(* filters.py: the nodes of a filter.                                     *)
(***************************************************************************)
None == [kind |-> "none"]
Expression(field, lookup, value) ==
    [kind |-> "expr", field |-> field, lookup |-> lookup, value |-> value]
\* AndNode(first, second, *others)
AndNode(children) == [kind |-> "and", children |-> children]
\* OrNode(first, second, *others)
OrNode(children) == [kind |-> "or", children |-> children]
NotNode(node) == [kind |-> "not", child |-> node]

\* A variant of And_ that never adds a child to an AndNode.
AndNested(a, b) == AndNode(<<a, b>>)

\* a & b: Node.and_, and AndNode.and_ when a is an AndNode.
And_(a, b) ==
    IF a.kind = "and" THEN AndNode(Append(a.children, b)) ELSE AndNode(<<a, b>>)
\* a | b: Node.or_, and OrNode.or_ when a is an OrNode.
Or_(a, b) ==
    IF a.kind = "or" THEN OrNode(Append(a.children, b)) ELSE OrNode(<<a, b>>)
\* ~a: Node.not_, and NotNode.not_ when a is a NotNode.
Not_(a) == IF a.kind = "not" THEN a.child ELSE NotNode(a)

(***************************************************************************)
(* Text: a str is the sequence of its characters.                         *)
(***************************************************************************)
\* str.lower() of one character.
LowerChar(c) == IF c = "A" THEN "a" ELSE IF c = "D" THEN "d" ELSE IF c = "N" THEN "n" ELSE c
Lower(str) == [i \in 1..Len(str) |-> LowerChar(str[i])]
\* ord() of one character.
Ord(c) ==
    CASE c = "*" -> 42 [] c = "A" -> 65 [] c = "D" -> 68 [] c = "N" -> 78
      [] c = "\\" -> 92 [] c = "a" -> 97 [] c = "b" -> 98 [] c = "c" -> 99 [] c = "d" -> 100 [] c = "e" -> 101 [] c = "g" -> 103 [] c = "m" -> 109
      [] c = "z" -> 122 [] c = "-" -> 45
      [] c = "n" -> 110 [] OTHER -> 0

RECURSIVE StrLess(_, _)
\* x < y on str.
StrLess(x, y) ==
    IF y = <<>> THEN FALSE
    ELSE IF x = <<>> THEN TRUE
    ELSE IF Ord(x[1]) # Ord(y[1]) THEN Ord(x[1]) < Ord(y[1])
    ELSE StrLess(Tail(x), Tail(y))

StartsWith(str, prefix) ==
    Len(prefix) <= Len(str) /\ SubSeq(str, 1, Len(prefix)) = prefix
EndsWith(str, suffix) ==
    /\ Len(suffix) <= Len(str)
    /\ SubSeq(str, Len(str) - Len(suffix) + 1, Len(str)) = suffix
\* sub in str
Contains(str, sub) ==
    \E i \in 0..(Len(str) - Len(sub)) : SubSeq(str, i + 1, i + Len(sub)) = sub

(***************************************************************************)
(* Query._split_node                                                       *)
(***************************************************************************)
\* The key of the dn in a record, and the field name of a dn lookup.
DnKey == <<"d", "n">>

\* node.lookup_type or 'exact'
LookupOf(node) == IF node.lookup = "None" THEN "exact" ELSE node.lookup

Parts(ldap, python, dn) == [ldap |-> ldap, python |-> python, dn |-> dn]

NotNone(nodes) == SelectSeq(nodes, LAMBDA x : x # None)

\* A variant of Recombine that keeps the first node only.
RecombineFirst(nodes) == IF nodes # <<>> THEN nodes[1] ELSE None

\* AndNode(*nodes) of two or more nodes, the node itself of one, None of none.
Recombine(nodes) ==
    IF Len(nodes) >= 2 THEN AndNode(nodes)
    ELSE IF nodes # <<>> THEN nodes[1] ELSE None

RECURSIVE SplitNode(_)
SplitNode(node) ==
    CASE node.kind = "expr" ->
            IF LookupOf(node) \in {"gt", "gte", "lt", "lte"}
            THEN Parts(None, node, None)
            ELSE IF Lower(node.field) # DnKey
            THEN Parts(node, None, None)
            ELSE IF LookupOf(node) = "exact"
            THEN Parts(None, None, node)
            ELSE Parts(None, node, None)
      [] node.kind = "and" ->
            LET split  == [i \in 1..Len(node.children) |-> SplitNode(node.children[i])]
                ldap   == NotNone([i \in 1..Len(split) |-> split[i].ldap])
                python == NotNone([i \in 1..Len(split) |-> split[i].python])
                dn     == NotNone([i \in 1..Len(split) |-> split[i].dn])
            IN  Parts(Recombine(ldap),
                      Recombine(IF Len(dn) >= 2 THEN python \o dn ELSE python),
                      IF Len(dn) >= 2 THEN None
                      ELSE IF dn # <<>> THEN dn[1] ELSE None)
      [] node.kind = "or" ->
            IF \E i \in 1..Len(node.children) :
                   \/ SplitNode(node.children[i]).python # None
                   \/ SplitNode(node.children[i]).dn # None
            THEN Parts(None, node, None)
            ELSE Parts(node, None, None)
      [] node.kind = "not" ->
            IF \/ SplitNode(node.child).python # None
               \/ SplitNode(node.child).dn # None
            THEN Parts(None, node, None)
            ELSE Parts(node, None, None)

(***************************************************************************)
(* Query._compile_filter: the filter text sent to the directory.  A        *)
(* compiled item keeps its attribute and the text after the "=" apart; the *)
(* combinators keep their children.                                        *)
(***************************************************************************)
Raise(error) == [kind |-> "raise", error |-> error]
Item(field, assertion) == [kind |-> "item", field |-> field, assertion |-> assertion]

\* ldap3.utils.conv.escape_filter_chars, one character.
EscapeChar(c) ==
    CASE c = "\\" -> <<"\\", "5", "c">>
      [] c = "*"  -> <<"\\", "2", "a">>
      [] c = "("  -> <<"\\", "2", "8">>
      [] c = ")"  -> <<"\\", "2", "9">>
      [] OTHER    -> <<c>>

RECURSIVE EscapeFilterChars(_)
EscapeFilterChars(str) ==
    IF str = <<>> THEN <<>>
    ELSE EscapeChar(str[1]) \o EscapeFilterChars(Tail(str))

\* _LOOKUP_TYPES: the text after "{field}=" for a lookup type.
TemplateLookups ==
    {"exact", "iexact", "contains", "icontains", "startswith", "istartswith",
     "endswith", "iendswith", "present", "search"}
Template(lookup, value) ==
    CASE lookup \in {"exact", "iexact"}                -> value
      [] lookup \in {"contains", "icontains", "search"} -> <<"*">> \o value \o <<"*">>
      [] lookup \in {"startswith", "istartswith"}       -> value \o <<"*">>
      [] lookup \in {"endswith", "iendswith"}           -> <<"*">> \o value
      [] lookup = "present"                             -> <<"*">>

\* A variant of ReduceOr that keeps the first expression only.
ReduceFirst(nodes) == nodes[1]

RECURSIVE ReduceOr(_)
\* reduce(or_, expressions)
ReduceOr(nodes) ==
    IF Len(nodes) = 1 THEN nodes[1]
    ELSE Or_(ReduceOr(SubSeq(nodes, 1, Len(nodes) - 1)), nodes[Len(nodes)])

IsRaise(x) == x.kind = "raise"
\* The first error among compiled children, if any.
FirstRaise(compiled) ==
    compiled[CHOOSE i \in 1..Len(compiled) :
                /\ IsRaise(compiled[i])
                /\ \A j \in 1..(i - 1) : ~IsRaise(compiled[j])]

RECURSIVE CompileFilter(_)
CompileFilter(node) ==
    CASE node.kind = "expr" ->
            LET lookup == LookupOf(node) IN
            IF lookup = "in"
            THEN IF node.value = <<>>
                 THEN Raise("ValueError")
                 ELSE CompileFilter(ReduceOr(
                        [i \in 1..Len(node.value) |->
                            Expression(node.field, "exact", node.value[i])]))
            ELSE IF lookup = "present" /\ node.value = FALSE
            THEN CompileFilter(Not_(Expression(node.field, "present", TRUE)))
            ELSE IF lookup = "isnull"
            THEN CompileFilter(Expression(node.field, "present", ~node.value))
            ELSE IF lookup \notin TemplateLookups
            THEN Raise("ValueError")
            ELSE IF lookup = "present"
            THEN Item(node.field, Template(lookup, <<>>))
            ELSE Item(node.field, Template(lookup, EscapeFilterChars(node.value)))
      [] node.kind \in {"and", "or"} ->
            LET compiled == [i \in 1..Len(node.children) |->
                                CompileFilter(node.children[i])] IN
            IF \E i \in 1..Len(compiled) : IsRaise(compiled[i])
            THEN FirstRaise(compiled)
            ELSE [kind |-> node.kind, children |-> compiled]
      [] node.kind = "not" ->
            LET compiled == CompileFilter(node.child) IN
            IF IsRaise(compiled) THEN compiled
            ELSE [kind |-> "not", child |-> compiled]
      [] OTHER -> Raise("ValueError")

(***************************************************************************)
(* The directory: how a search filter accepts an entry (the search the     *)
(* filter text is handed to by Connection.search).                         *)
(***************************************************************************)
\* attrs.get(field, default) on a record of Connection.search: the dn under
\* the key 'dn', every attribute of the entry under its own name.
Get(rec, field, default) ==
    IF field = DnKey THEN rec.dn
    ELSE IF field \in DOMAIN rec.attrs THEN rec.attrs[field]
    ELSE default

\* The values of an attribute of an entry, as the directory sees them:
\* attribute names match without regard to case, and the dn is no attribute.
EntryValues(rec, field) ==
    IF \E a \in DOMAIN rec.attrs : Lower(a) = Lower(field)
    THEN rec.attrs[CHOOSE a \in DOMAIN rec.attrs : Lower(a) = Lower(field)]
    ELSE <<>>

Star == [star |-> TRUE, ch |-> "*"]
Literal(c) == [star |-> FALSE, ch |-> c]
Unhex(h, l) ==
    CASE h = "5" /\ l = "c" -> "\\"
      [] h = "2" /\ l = "a" -> "*"
      [] h = "2" /\ l = "8" -> "("
      [] h = "2" /\ l = "9" -> ")"
      [] OTHER -> "?"

RECURSIVE Tokens(_)
\* The assertion text read as the directory reads it: a bare "*" is a
\* wildcard, a backslash and two hex digits are one literal character.
Tokens(a) ==
    IF a = <<>> THEN <<>>
    ELSE IF a[1] = "*" THEN <<Star>> \o Tokens(Tail(a))
    ELSE IF a[1] = "\\" /\ Len(a) >= 3
    THEN <<Literal(Unhex(a[2], a[3]))>> \o Tokens(SubSeq(a, 4, Len(a)))
    ELSE <<Literal(a[1])>> \o Tokens(Tail(a))

RECURSIVE Glob(_, _, _)
\* An equality or substring assertion against one value; ci: the attribute's
\* matching rule ignores case.
Glob(tokens, str, ci) ==
    IF tokens = <<>> THEN str = <<>>
    ELSE IF tokens[1].star
    THEN Glob(Tail(tokens), str, ci) \/ (str # <<>> /\ Glob(tokens, Tail(str), ci))
    ELSE /\ str # <<>>
         /\ IF ci THEN LowerChar(tokens[1].ch) = LowerChar(str[1])
                  ELSE tokens[1].ch = str[1]
         /\ Glob(Tail(tokens), Tail(str), ci)

RECURSIVE ServerMatch(_, _, _)
ServerMatch(filter, rec, ci) ==
    CASE filter.kind = "item" ->
            LET values == EntryValues(rec, filter.field) IN
            IF filter.assertion = <<"*">> THEN values # <<>>
            ELSE \E i \in 1..Len(values) : Glob(Tokens(filter.assertion), values[i], ci)
      [] filter.kind = "and" ->
            \A i \in 1..Len(filter.children) : ServerMatch(filter.children[i], rec, ci)
      [] filter.kind = "or" ->
            \E i \in 1..Len(filter.children) : ServerMatch(filter.children[i], rec, ci)
      [] filter.kind = "not" -> ~ServerMatch(filter.child, rec, ci)

(***************************************************************************)
(* FilteredQuery._compile_filter: the predicate applied in Python.         *)
(***************************************************************************)
\* The lookup types the predicate of a dn supports.
DnLookups ==
    {"in", "exact", "iexact", "contains", "icontains", "search",
     "startswith", "istartswith", "endswith", "iendswith"}
\* The lookup types the predicate of any other attribute supports.
ElementLookups ==
    {"in", "exact", "iexact", "contains", "icontains", "search",
     "startswith", "istartswith", "endswith", "iendswith",
     "gt", "gte", "lt", "lte"}

\* elem_func: the test of one value el of the attribute.
ElemFunc(lookup, value, el) ==
    CASE lookup = "in"          -> \E i \in 1..Len(value) : value[i] = el
      [] lookup = "exact"       -> el = value
      [] lookup = "iexact"      -> Lower(el) = Lower(value)
      [] lookup = "contains"    -> Contains(el, value)
      [] lookup \in {"icontains", "search"} -> Contains(Lower(el), Lower(value))
      [] lookup = "startswith"  -> StartsWith(el, value)
      [] lookup = "istartswith" -> StartsWith(Lower(el), Lower(value))
      [] lookup = "endswith"    -> EndsWith(el, value)
      [] lookup = "iendswith"   -> EndsWith(Lower(el), Lower(value))
      [] lookup = "gt"          -> StrLess(value, el)
      [] lookup = "gte"         -> ~StrLess(el, value)
      [] lookup = "lt"          -> StrLess(el, value)
      [] lookup = "lte"         -> ~StrLess(value, el)

\* The predicate of a dn expression: every lookup ignores case.
DnFunc(lookup, value, dn) ==
    CASE lookup = "in" -> \E i \in 1..Len(value) : Lower(value[i]) = Lower(dn)
      [] lookup \in {"exact", "iexact"} -> Lower(dn) = Lower(value)
      [] lookup \in {"contains", "icontains", "search"} ->
            Contains(Lower(dn), Lower(value))
      [] lookup \in {"startswith", "istartswith"} ->
            StartsWith(Lower(dn), Lower(value))
      [] lookup \in {"endswith", "iendswith"} -> EndsWith(Lower(dn), Lower(value))

RECURSIVE LocalRaises(_)
\* _compile_filter raises ValueError: some expression has a lookup type it
\* does not support.
LocalRaises(node) ==
    CASE node.kind = "expr" ->
            IF Lower(node.field) = DnKey
            THEN LookupOf(node) \notin DnLookups
            ELSE LookupOf(node) \notin (ElementLookups \cup {"present", "isnull"})
      [] node.kind \in {"and", "or"} ->
            \E i \in 1..Len(node.children) : LocalRaises(node.children[i])
      [] node.kind = "not" -> LocalRaises(node.child)
      [] OTHER -> TRUE

RECURSIVE LocalEval(_, _)
\* filter_func(attrs) for a node that compiles.
LocalEval(node, rec) ==
    CASE node.kind = "expr" ->
            LET lookup == LookupOf(node) IN
            IF Lower(node.field) = DnKey
            THEN DnFunc(lookup, node.value, Get(rec, node.field, <<>>))
            ELSE IF lookup = "present"
            THEN node.value = (Get(rec, node.field, <<>>) # <<>>)
            ELSE IF lookup = "isnull"
            THEN node.value # (Get(rec, node.field, <<>>) # <<>>)
            ELSE LET values == Get(rec, node.field, <<>>) IN
                 \E i \in 1..Len(values) : ElemFunc(lookup, node.value, values[i])
      [] node.kind = "and" ->
            \A i \in 1..Len(node.children) : LocalEval(node.children[i], rec)
      [] node.kind = "or" ->
            \E i \in 1..Len(node.children) : LocalEval(node.children[i], rec)
      [] node.kind = "not" -> ~LocalEval(node.child, rec)

(***************************************************************************)
(* Query.filter on a query of subtree scope, the query it returns run      *)
(* against one record, and the node evaluated against that record.         *)
(***************************************************************************)
\* Query._base_dn of the query filter is called on.
BaseDn == <<"c">>

Cn == <<"c", "n">>
TextLookups ==
    {"None", "exact", "iexact", "contains", "icontains", "startswith",
     "istartswith", "endswith", "iendswith", "search", "gt", "gte", "lt", "lte"}
DnTextLookups ==
    {"None", "exact", "iexact", "contains", "startswith", "iendswith"}

\* Single expressions.
FilterExprs ==
         {Expression(Cn, l, v) : l \in TextLookups, v \in {<<"a">>, <<"*">>}}
    \cup {Expression(Cn, l, b) : l \in {"present", "isnull"}, b \in BOOLEAN}
    \cup {Expression(Cn, "in", vs) : vs \in {<< <<"a">> >>, << <<"a">>, <<"b">> >>}}
    \cup {Expression(DnKey, l, v) : l \in DnTextLookups,
                                    v \in {<<"a", "c">>, <<"b", "c">>, <<"a">>}}
    \cup {Expression(DnKey, "in", << <<"a", "c">>, <<"b", "c">> >>)}
    \cup {Expression(<<"D", "N">>, "exact", <<"a", "c">>)}

\* The expressions the nested nodes are built from.
CoreExprs ==
    {Expression(Cn, "None", <<"a">>), Expression(Cn, "gt", <<"a">>),
     Expression(Cn, "present", TRUE), Expression(DnKey, "exact", <<"a", "c">>)}

Combine(nodes) ==
         {AndNode(<<x, y>>) : x \in nodes, y \in nodes}
    \cup {OrNode(<<x, y>>) : x \in nodes, y \in nodes}
    \cup {NotNode(x) : x \in nodes}

FilterNodes ==
         FilterExprs
    \cup Combine(CoreExprs)
    \cup Combine(CoreExprs \cup Combine(CoreExprs))
    \cup {AndNode(<<x, y, z>>) : x \in CoreExprs, y \in CoreExprs, z \in CoreExprs}

\* Records of Connection.search under the base.
FilterRecords ==
    [dn : {<<"a", "c">>, <<"A", "c">>},
     attrs : [{Cn} -> {<<>>, << <<"a">> >>, << <<"A">> >>, << <<"*">> >>,
                       << <<"a">>, <<"b">> >>}]]

NoQuery == [kind |-> "none"]
\* EmptyQuery.instance
EmptyResult == [kind |-> "empty"]

\* The query Query.filter returns for a node: the entity the search is
\* narrowed to (when there is a dn part), the node added to the remote
\* filter and the node of the FilteredQuery around it.
FilterResult(parts) ==
    IF parts.dn # None /\ ~EndsWith(Lower(parts.dn.value), Lower(BaseDn))
    THEN EmptyResult
    ELSE [kind |-> "query",
          entity |-> IF parts.dn # None THEN parts.dn.value ELSE <<>>,
          narrowed |-> parts.dn # None,
          ldap |-> parts.ldap,
          python |-> parts.python]

\* The record is among the results of the query.
InResults(q, rec, ci) ==
    /\ q.kind = "query"
    /\ q.narrowed => Lower(rec.dn) = Lower(q.entity)
    /\ q.ldap # None => ServerMatch(CompileFilter(q.ldap), rec, ci)
    /\ q.python # None => LocalEval(q.python, rec)

FilterInit ==
    /\ fnode \in FilterNodes
    /\ frecord \in FilterRecords
    /\ caseIgnore \in BOOLEAN
    /\ fphase = "new"
    /\ fquery = NoQuery
    /\ accepted = FALSE
    /\ direct = FALSE

FilterUnused ==
    /\ fnode = None
    /\ frecord = [dn |-> BaseDn, attrs |-> [a \in {Cn} |-> <<>>]]
    /\ caseIgnore = TRUE
    /\ fphase = "new"
    /\ fquery = NoQuery
    /\ accepted = FALSE
    /\ direct = FALSE

\* query.filter(fnode)
Filter ==
    /\ fphase = "new"
    /\ fnode # None
    /\ fquery' = FilterResult(SplitNode(fnode))
    /\ fphase' = "filtered"
    /\ UNCHANGED <<fnode, frecord, caseIgnore, accepted, direct>>
    /\ UNCHANGED nonFilterVars

\* The returned query is run.
RunQuery ==
    /\ fphase = "filtered"
    /\ accepted' = InResults(fquery, frecord, caseIgnore)
    /\ fphase' = "ran"
    /\ UNCHANGED <<fnode, frecord, caseIgnore, fquery, direct>>
    /\ UNCHANGED nonFilterVars

\* The node is evaluated against the record.
EvaluateDirectly ==
    /\ fphase = "ran"
    /\ direct' = LocalEval(fnode, frecord)
    /\ fphase' = "done"
    /\ UNCHANGED <<fnode, frecord, caseIgnore, fquery, accepted>>
    /\ UNCHANGED nonFilterVars

NextFilter ==
    \/ Filter
    \/ RunQuery
    \/ EvaluateDirectly

(***************************************************************************)
(* OrderedQuery: the comparison of two records and the sorted sequence.    *)
(* A value of an attribute is what _convert made of the raw value: an int  *)
(* or a str.  The values of one attribute are of one type here.            *)
(***************************************************************************)
IntVal(n) == [type |-> "int", val |-> n]
StrVal(str) == [type |-> "str", val |-> str]

\* x < y on two values of one type.
ValLess(x, y) ==
    IF x.type = "int" THEN x.val < y.val ELSE StrLess(x.val, y.val)

RECURSIVE ListLess(_, _)
\* x < y on two lists of values.
ListLess(x, y) ==
    IF y = <<>> THEN FALSE
    ELSE IF x = <<>> THEN TRUE
    ELSE IF x[1] = y[1] THEN ListLess(Tail(x), Tail(y))
    ELSE ValLess(x[1], y[1])

\* to_apply: (attribute, descending) of every ordering.
ToApply(orderings) ==
    [i \in 1..Len(orderings) |->
        IF StartsWith(orderings[i], <<"-">>)
        THEN [attr |-> Tail(orderings[i]), descending |-> TRUE]
        ELSE [attr |-> orderings[i], descending |-> FALSE]]

RECURSIVE CompareAscending(_, _, _)
\* A variant of Compare that takes every ordering for an ascending one.
CompareAscending(to_apply, res1, res2) ==
    IF to_apply = <<>> THEN 0
    ELSE LET x == Get(res1, to_apply[1].attr, <<>>)
             y == Get(res2, to_apply[1].attr, <<>>)
         IN  IF ListLess(x, y) THEN -1
             ELSE IF ListLess(y, x) THEN 1
             ELSE CompareAscending(Tail(to_apply), res1, res2)

RECURSIVE Compare(_, _, _)
\* compare(res1, res2) of _compile_order.
Compare(to_apply, res1, res2) ==
    IF to_apply = <<>> THEN 0
    ELSE LET attr == to_apply[1].attr
             x == IF to_apply[1].descending
                  THEN Get(res2, attr, <<>>) ELSE Get(res1, attr, <<>>)
             y == IF to_apply[1].descending
                  THEN Get(res1, attr, <<>>) ELSE Get(res2, attr, <<>>)
         IN  IF ListLess(x, y) THEN -1
             ELSE IF ListLess(y, x) THEN 1
             ELSE Compare(Tail(to_apply), res1, res2)

\* res put into a sorted sequence: before the first record it is less than.
Insert(to_apply, sorted, res) ==
    LET later == {i \in 1..Len(sorted) : Compare(to_apply, res, sorted[i]) < 0}
        at == IF later = {} THEN Len(sorted) + 1
              ELSE CHOOSE i \in later : \A j \in later : i <= j
    IN  SubSeq(sorted, 1, at - 1) \o <<res>> \o SubSeq(sorted, at, Len(sorted))

RECURSIVE Sorted(_, _)
\* sorted(records, key = cmp_to_key(compare)): a stable sort.
Sorted(to_apply, records) ==
    IF records = <<>> THEN <<>>
    ELSE Insert(to_apply,
                Sorted(to_apply, SubSeq(records, 1, Len(records) - 1)),
                records[Len(records)])

\* OrderedQuery._run_query over the records of the underlying query.
OrderedRun(orderings, records) == Sorted(ToApply(orderings), records)

Age == <<"a", "g", "e">>
Name == <<"n", "a", "m", "e">>

(***************************************************************************)
(* Two queries derived by order_by('age'), each from its own Query         *)
(* instance or both from one, iterated while the directory changes.        *)
(***************************************************************************)
Roots == {"q1", "q2"}
Derived == {"d1", "d2"}

\* OrderedQuery._query of derived query d.
Upstream(d) == IF shared \/ d = "d1" THEN "q1" ELSE "q2"

ChainOrderings == <<Age>>

ChainRecords ==
    {[dn |-> <<"a", "c">>, attrs |-> [a \in {Age} |-> <<IntVal(30)>>]],
     [dn |-> <<"b", "c">>, attrs |-> [a \in {Age} |-> <<IntVal(20)>>]]}
ChainDirs == {q \in SeqsUpTo(ChainRecords, 2) : NoDup(q)}

NoCache == [has |-> FALSE, recs |-> <<>>, by |-> "none", completed |-> 0]
NoChainLast ==
    [d |-> "none", hadCache |-> FALSE, upstreamHit |-> FALSE, issued |-> FALSE,
     error |-> "none", result |-> <<>>]

ChainNew ==
    /\ rootCache = [r \in Roots |-> NoCache]
    /\ rootSearches = [r \in Roots |-> 0]
    /\ derivedCache = [d \in Derived |-> NoCache]
    /\ chainLast = NoChainLast

ChainInit ==
    /\ chainDir \in ChainDirs
    /\ shared \in BOOLEAN
    /\ ChainNew

ChainUnused ==
    /\ chainDir = <<>>
    /\ shared = FALSE
    /\ ChainNew

ChainDirectoryChange ==
    /\ \E q \in ChainDirs : q # chainDir /\ chainDir' = q
    /\ UNCHANGED <<shared, rootCache, rootSearches, derivedCache, chainLast>>
    /\ UNCHANGED nonChainVars

\* A variant of UpstreamHit: the snapshot of the upstream is never found.
UpstreamMiss(r) == FALSE

\* _cached of the Query instance r finds its snapshot.
UpstreamHit(r) == rootCache[r].has

\* iter(d): _cached of the derived query; without a snapshot of its own,
\* _run_query sorts iter(self._query), which is _cached of the upstream.
IterateDerived(d) ==
    LET r == Upstream(d) IN
    /\ IF derivedCache[d].has
       THEN /\ chainLast' = [d |-> d, hadCache |-> TRUE, upstreamHit |-> FALSE,
                             issued |-> FALSE, error |-> "none",
                             result |-> derivedCache[d].recs]
            /\ UNCHANGED <<rootCache, rootSearches, derivedCache>>
       ELSE IF UpstreamHit(r)
       THEN /\ derivedCache' = [derivedCache EXCEPT ![d] =
                    [has |-> TRUE, by |-> d, completed |-> 0,
                     recs |-> OrderedRun(ChainOrderings, rootCache[r].recs)]]
            /\ chainLast' = [d |-> d, hadCache |-> FALSE, upstreamHit |-> TRUE,
                             issued |-> FALSE, error |-> "none",
                             result |-> OrderedRun(ChainOrderings, rootCache[r].recs)]
            /\ UNCHANGED <<rootCache, rootSearches>>
       ELSE /\ rootSearches[r] < MaxSearches
            /\ rootSearches' = [rootSearches EXCEPT ![r] = @ + 1]
            /\ \/ /\ rootCache' = [rootCache EXCEPT ![r] =
                        [has |-> TRUE, by |-> d, recs |-> chainDir,
                         completed |-> @.completed + 1]]
                  /\ derivedCache' = [derivedCache EXCEPT ![d] =
                        [has |-> TRUE, by |-> d, completed |-> 0,
                         recs |-> OrderedRun(ChainOrderings, chainDir)]]
                  /\ chainLast' = [d |-> d, hadCache |-> FALSE, upstreamHit |-> FALSE,
                                   issued |-> TRUE, error |-> "none",
                                   result |-> OrderedRun(ChainOrderings, chainDir)]
               \/ /\ chainLast' = [d |-> d, hadCache |-> FALSE, upstreamHit |-> FALSE,
                                   issued |-> TRUE, error |-> "LDAPError",
                                   result |-> <<>>]
                  /\ UNCHANGED <<rootCache, derivedCache>>
    /\ UNCHANGED <<chainDir, shared>>
    /\ UNCHANGED nonChainVars

NextChain ==
    \/ ChainDirectoryChange
    \/ \E d \in Derived : IterateDerived(d)

(***************************************************************************)
(* Calls of one function on arguments drawn from a set: the call is made   *)
(* once.                                                                   *)
(***************************************************************************)
NoCall == [op |-> "none"]

\* The call is made on one of the arguments of inputs.
CallInit(inputs) ==
    /\ callIn \in inputs
    /\ callDone = FALSE
    /\ callOut = NoCall

CallUnused == CallInit({NoCall})

\* The call under study, made with the arguments drawn, gives out.
Call(op, out) ==
    /\ ~callDone
    /\ callIn.op = op
    /\ callDone' = TRUE
    /\ callOut' = out
    /\ UNCHANGED callIn
    /\ UNCHANGED nonCallVars

\* The call op has been made.
Called(op) == callDone /\ callIn.op = op

(***************************************************************************)
(* Slices: q[start:stop:step], SlicedQuery(q, low, high, step) and q[k].   *)
(***************************************************************************)
\* The sources: n records, each its own position, and short sequences in
\* which a record occurs twice.
SliceSources ==
         {[i \in 1..n |-> i - 1] : n \in 0..MaxSliceSource}
    \cup {<<0, 0>>, <<1, 0>>, <<1, 1, 0>>}

OptInts(lowest, highest) == {<<>>} \cup {<<n>> : n \in lowest..highest}

SliceInputs ==
         [op : {"getitem_slice"}, src : SliceSources,
          key : [start : OptInts(-1, MaxLow), stop : OptInts(-1, MaxHigh),
                 step : OptInts(-1, MaxStep)]]
    \cup [op : {"sliced_query"}, src : SliceSources,
          low : -1..MaxLow, high : OptInts(-1, MaxHigh), step : -1..MaxStep]
    \cup [op : {"getitem_int"}, src : SliceSources, k : -1..MaxSliceSource]

\* list(q[start:stop:step])
GetItemSlice == Call("getitem_slice", GetSlice(callIn.src, callIn.key))

\* list(SlicedQuery(q, low, high, step))
NewSlicedQuery ==
    Call("sliced_query",
         SlicedQuery(callIn.src, callIn.low, callIn.high, callIn.step))

\* q[k]: self[k:k + 1].one()
GetItemInt ==
    Call("getitem_int",
         LET made == GetSlice(callIn.src, IntKey(callIn.k)) IN
         [made EXCEPT !.records = FirstOrNone(made.records)])

NextSlice ==
    \/ GetItemSlice
    \/ NewSlicedQuery
    \/ GetItemInt

(***************************************************************************)
(* order_by: one sequence of records sorted by one list of orderings.      *)
(***************************************************************************)
\* A record of the given dn with the given age and name, each a list.
Person(dn, age, name) ==
    [dn |-> dn,
     attrs |-> [a \in ({Age} \ (IF age = <<>> THEN {Age} ELSE {}))
                     \cup ({Name} \ (IF name = <<>> THEN {Name} ELSE {})) |->
                  IF a = Age THEN age ELSE name]]

Age30B == Person(<<"a">>, <<IntVal(30)>>, <<StrVal(<<"b">>)>>)
Age30A == Person(<<"b">>, <<IntVal(30)>>, <<StrVal(<<"a">>)>>)
Age20Z == Person(<<"c">>, <<IntVal(20)>>, <<StrVal(<<"z">>)>>)
Age30ATwin == Person(<<"d">>, <<IntVal(30)>>, <<StrVal(<<"a">>)>>)
NoAgeA == Person(<<"e">>, <<>>, <<StrVal(<<"a">>)>>)
NoAgeNoName == Person(<<"f">>, <<>>, <<>>)

OrderRecords == {Age30B, Age30A, Age20Z, Age30ATwin, NoAgeA, NoAgeNoName}

Descending(attr) == <<"-">> \o attr

OrderInputs ==
    [op : {"order_by"},
     src : SeqsUpTo(OrderRecords, MaxOrdered),
     orderings : {<<>>, <<Age>>, <<Descending(Age)>>, <<Name>>, <<Descending(Name)>>,
                  <<Age, Name>>, <<Descending(Age), Name>>,
                  <<Descending(Age), Descending(Name)>>}]

\* list(q.order_by(*orderings))
OrderBy == Call("order_by", OrderedRun(callIn.orderings, callIn.src))

NextOrder ==
    \/ OrderBy

(***************************************************************************)
(* DistinctQuery: the records not seen before.                             *)
(***************************************************************************)
\* frozenset(v): the members of a list, or the characters of a str.
FrozenSet(v) == {v[i] : i \in 1..Len(v)}

\* attrs.items() of a record of Connection.search: the dn, a str, under
\* 'dn', and every attribute, a list, under its name.
Items(rec) ==
    {<<DnKey, rec.dn>>} \cup {<<k, rec.attrs[k]>> : k \in DOMAIN rec.attrs}

\* frozenset((k, frozenset(v)) for k, v in attrs.items())
Hashable(rec) == {<<item[1], FrozenSet(item[2])>> : item \in Items(rec)}

RECURSIVE DistinctFrom(_, _)
\* DistinctQuery._run_query over records, seen being the keys met so far.
DistinctFrom(records, seen) ==
    IF records = <<>> THEN <<>>
    ELSE IF Hashable(Head(records)) \in seen
    THEN DistinctFrom(Tail(records), seen)
    ELSE <<Head(records)>> \o
         DistinctFrom(Tail(records), seen \cup {Hashable(Head(records))})

DistinctRun(records) == DistinctFrom(records, {})

DistinctRecords ==
    [dn : {<<"a", "b">>, <<"b", "a">>, <<"a", "c">>},
     attrs : [{Cn} -> {<< <<"a">> >>, << <<"a">>, <<"b">> >>,
                       << <<"b">>, <<"a">> >>, << <<"a">>, <<"a">> >>}]]

DistinctInputs ==
    [op : {"distinct"}, src : SeqsUpTo(DistinctRecords, MaxDistinct)]

\* list(q.distinct())
Distinct == Call("distinct", DistinctRun(callIn.src))

NextDistinct ==
    \/ Distinct

(***************************************************************************)
(* EmptyQuery: the operations of a query, applied to the empty query.      *)
(***************************************************************************)
\* What stands for the empty query: an EmptyQuery object, or what
\* Query.filter returns for one, EmptyQuery.instance, which is a plain
\* function of the class (it is neither called nor a classmethod).
EmptyQueries == {"EmptyQuery()", "EmptyQuery.instance"}

\* What an operation gives.
ReturnsSelf == [kind |-> "self", value |-> "self", error |-> "none", searched |-> FALSE]
Returns(value) == [kind |-> "value", value |-> value, error |-> "none", searched |-> FALSE]
Raises(error) == [kind |-> "raise", value |-> "none", error |-> error, searched |-> FALSE]

\* Operations looked up as an attribute of the object.
EmptyMethods ==
    {"filter", "exclude", "select", "distinct", "annotate", "order_by",
     "one", "aggregate"}
\* Operations the interpreter looks up on the type: q[key], len(q), iter(q).
EmptyProtocols == {"getitem_slice", "getitem_int", "len", "iter"}

\* Operation op with nargs arguments applied to the empty query e.
EmptyOp(e, op, nargs) ==
    IF e = "EmptyQuery.instance"
    THEN IF op \in EmptyMethods THEN Raises("AttributeError") ELSE Raises("TypeError")
    ELSE CASE op \in {"filter", "select", "distinct", "annotate", "order_by"} ->
                ReturnsSelf
           [] op = "exclude" ->
                \* QueryBase.exclude: self.filter(~F(*args, **kwargs))
                IF nargs = 0 THEN Raises("ValueError") ELSE ReturnsSelf
           [] op \in {"getitem_slice", "getitem_int"} -> Raises("IndexError")
           [] op = "one" -> Returns("None")
           [] op = "len" -> Returns("0")
           [] op = "iter" -> Returns("no records")
           [] op = "aggregate" -> Returns("results after reset")

EmptyInputs ==
         [op : {"filter", "exclude", "select", "annotate", "order_by", "aggregate"},
          e : EmptyQueries, nargs : 0..MaxArgs,
          key : {SliceKey(<<>>, <<>>, <<>>)}]
    \cup [op : {"distinct", "one", "len", "iter"},
          e : EmptyQueries, nargs : {0}, key : {SliceKey(<<>>, <<>>, <<>>)}]
    \cup [op : {"getitem_slice"}, e : EmptyQueries, nargs : {1},
          key : [start : OptInts(0, MaxLow), stop : OptInts(0, MaxHigh),
                 step : OptInts(1, MaxStep)]]
    \cup [op : {"getitem_int"}, e : EmptyQueries, nargs : {1},
          key : {IntKey(k) : k \in 0..MaxLow}]

EmptyFilter == Call("filter", EmptyOp(callIn.e, "filter", callIn.nargs))
EmptyExclude == Call("exclude", EmptyOp(callIn.e, "exclude", callIn.nargs))
EmptySelect == Call("select", EmptyOp(callIn.e, "select", callIn.nargs))
EmptyDistinct == Call("distinct", EmptyOp(callIn.e, "distinct", callIn.nargs))
EmptyAnnotate == Call("annotate", EmptyOp(callIn.e, "annotate", callIn.nargs))
EmptyOrderBy == Call("order_by", EmptyOp(callIn.e, "order_by", callIn.nargs))
EmptyGetItemSlice ==
    Call("getitem_slice", EmptyOp(callIn.e, "getitem_slice", callIn.nargs))
EmptyGetItemInt == Call("getitem_int", EmptyOp(callIn.e, "getitem_int", callIn.nargs))
EmptyOne == Call("one", EmptyOp(callIn.e, "one", callIn.nargs))
EmptyLen == Call("len", EmptyOp(callIn.e, "len", callIn.nargs))
EmptyIter == Call("iter", EmptyOp(callIn.e, "iter", callIn.nargs))
EmptyAggregate == Call("aggregate", EmptyOp(callIn.e, "aggregate", callIn.nargs))

NextEmpty ==
    \/ EmptyFilter
    \/ EmptyExclude
    \/ EmptySelect
    \/ EmptyDistinct
    \/ EmptyAnnotate
    \/ EmptyOrderBy
    \/ EmptyGetItemSlice
    \/ EmptyGetItemInt
    \/ EmptyOne
    \/ EmptyLen
    \/ EmptyIter
    \/ EmptyAggregate

(***************************************************************************)
(* An 'in' lookup compiled by Query._compile_filter and handed to the      *)
(* directory.                                                              *)
(***************************************************************************)
InValues == {<<"a">>, <<"b">>, <<"*">>}
Uid == <<"u", "i", "d">>

CompileInputs ==
    [op : {"compile"},
     node : {Expression(field, "in", V) :
                field \in {Cn, Uid},
                V \in {q \in SeqsUpTo(InValues, MaxIn) : NoDup(q)}},
     rec : FilterRecords,
     ci : BOOLEAN]

\* conn.search(base_dn, self._compile_filter(node), scope): the filter
\* compiled, and whether the directory returns the record.
CompileAndSearch(node, rec, ci) ==
    LET compiled == CompileFilter(node) IN
    [compiled |-> compiled,
     matched |-> IF IsRaise(compiled) THEN FALSE ELSE ServerMatch(compiled, rec, ci)]

Compile == Call("compile", CompileAndSearch(callIn.node, callIn.rec, callIn.ci))

NextCompile ==
    \/ Compile

(***************************************************************************)
(* The filter nodes combined: the operators, the constructors and F.       *)
(***************************************************************************)
\* Something that is not a Node.
NotANode == [kind |-> "str"]
IsNode(x) == x.kind \in {"expr", "and", "or", "not"}

\* AndNode(*args) and OrNode(*args): __init__(self, first, second, *others).
NewAndNode(args) == IF Len(args) < 2 THEN Raise("TypeError") ELSE AndNode(args)
NewOrNode(args) == IF Len(args) < 2 THEN Raise("TypeError") ELSE OrNode(args)

\* F(*args, **kwargs), kwargs as the expressions they become, in order.
F(args, kwargs) ==
    LET filters == args \o kwargs IN
    IF \E i \in 1..Len(args) : ~IsNode(args[i]) THEN Raise("ValueError")
    ELSE IF filters = <<>> THEN Raise("ValueError")
    ELSE IF Len(filters) = 1 THEN filters[1]
    ELSE NewAndNode(filters)

NodeLeaves ==
    {Expression(Cn, "None", <<"a">>), Expression(Cn, "exact", <<"b">>),
     Expression(Cn, "present", TRUE)}
Pairs(S) == {<<x, y>> : x \in S, y \in S}
Operands ==
         NodeLeaves
    \cup {AndNode(p) : p \in {r \in Pairs(NodeLeaves) : r[1] # r[2]}}
    \cup {OrNode(p) : p \in {r \in Pairs(NodeLeaves) : r[1] # r[2]}}
    \cup {NotNode(Expression(Cn, "None", <<"a">>))}
\* The argument lists of a constructor or of F.
ArgLists(S) ==
    {<<>>} \cup {<<x>> : x \in S} \cup Pairs(S)
           \cup {<<x, y, z>> : x \in S, y \in S, z \in S}

NodeInputs ==
         [op : {"and", "or"}, args : Pairs(Operands)]
    \cup [op : {"AndNode", "OrNode"}, args : ArgLists(Operands)]
    \cup [op : {"F"}, args : ArgLists(Operands),
          kwargs : {<<>>, <<Expression(Uid, "None", <<"a">>)>>}]
    \cup [op : {"F"}, args : {<<NotANode>>, <<NotANode, Expression(Cn, "None", <<"a">>)>>},
          kwargs : {<<>>}]

AndOperator == Call("and", And_(callIn.args[1], callIn.args[2]))
OrOperator == Call("or", Or_(callIn.args[1], callIn.args[2]))
AndConstructor == Call("AndNode", NewAndNode(callIn.args))
OrConstructor == Call("OrNode", NewOrNode(callIn.args))
FCall == Call("F", F(callIn.args, callIn.kwargs))

NextNode ==
    \/ AndOperator
    \/ OrOperator
    \/ AndConstructor
    \/ OrConstructor
    \/ FCall

(***************************************************************************)
(* QueryBase.aggregate and the aggregations.  An aggregation is an object  *)
(* of a class (Count, Max, Min, or one written by the caller), with the    *)
(* attributes it has among reset, accumulate and result, and its state.    *)
(***************************************************************************)
Capabilities == {"reset", "accumulate", "result"}
ResultNone == [type |-> "none"]
Log(dns) == [type |-> "log", val |-> dns]

Aggregation(cls, attribute, has, state) ==
    [cls |-> cls, attribute |-> attribute, has |-> has, state |-> state]
\* Count() after state was left in it.
Count(state) == Aggregation("Count", <<>>, Capabilities, state)
Max(attribute, state) == Aggregation("Max", attribute, Capabilities, state)
Min(attribute, state) == Aggregation("Min", attribute, Capabilities, state)
\* An aggregation of the caller's, which keeps the dn of every record it is
\* passed, with the attributes has only.
Recorder(has, state) == Aggregation("Recorder", <<>>, has, state)

Range(q) == {q[i] : i \in 1..Len(q)}
\* max(values) and min(values) of a list that is not empty.
MaxOf(values) == CHOOSE v \in Range(values) : \A w \in Range(values) : ~ValLess(v, w)
MinOf(values) == CHOOSE v \in Range(values) : \A w \in Range(values) : ~ValLess(w, v)

\* A variant of Reset that leaves the state as it is.
ResetKeeps(agg) == agg

\* agg.reset()
Reset(agg) ==
    CASE agg.cls = "Count" -> [agg EXCEPT !.state = IntVal(0)]
      [] agg.cls \in {"Max", "Min"} -> [agg EXCEPT !.state = ResultNone]
      [] OTHER -> [agg EXCEPT !.state = Log(<<>>)]

\* agg.accumulate(attrs)
Accumulate(agg, attrs) ==
    CASE agg.cls = "Count" -> [agg EXCEPT !.state = IntVal(@.val + 1)]
      [] agg.cls = "Max" ->
            LET values == Get(attrs, agg.attribute, <<>>) IN
            IF values = <<>> THEN agg
            ELSE IF agg.state = ResultNone THEN [agg EXCEPT !.state = MaxOf(values)]
            ELSE [agg EXCEPT !.state = MaxOf(<<@, MaxOf(values)>>)]
      [] agg.cls = "Min" ->
            LET values == Get(attrs, agg.attribute, <<>>) IN
            IF values = <<>> THEN agg
            ELSE IF agg.state = ResultNone THEN [agg EXCEPT !.state = MinOf(values)]
            ELSE [agg EXCEPT !.state = MinOf(<<@, MinOf(values)>>)]
      [] OTHER -> [agg EXCEPT !.state = Log(Append(@.val, attrs.dn))]

\* agg.result
Result(agg) == agg.state

\* The first aggregation without the attribute, 0 when all have it.
FirstWithout(aggregations, attribute) ==
    IF \A i \in 1..Len(aggregations) : attribute \in aggregations[i].has THEN 0
    ELSE CHOOSE i \in 1..Len(aggregations) :
            /\ attribute \notin aggregations[i].has
            /\ \A j \in 1..(i - 1) : attribute \in aggregations[j].has

Swept(aggregations, raised) == [aggregations |-> aggregations, raised |-> raised]

\* for _, agg in aggregations.items(): agg.reset()
ResetAll(aggregations) ==
    LET k == FirstWithout(aggregations, "reset") IN
    Swept([i \in 1..Len(aggregations) |->
              IF k = 0 \/ i < k THEN Reset(aggregations[i]) ELSE aggregations[i]],
          k # 0)

\* for _, agg in aggregations.items(): agg.accumulate(attrs)
AccumulateAll(aggregations, attrs) ==
    LET k == FirstWithout(aggregations, "accumulate") IN
    Swept([i \in 1..Len(aggregations) |->
              IF k = 0 \/ i < k THEN Accumulate(aggregations[i], attrs)
              ELSE aggregations[i]],
          k # 0)

RECURSIVE Sweep(_, _)
\* for attrs in self: ...
Sweep(aggregations, records) ==
    IF records = <<>> THEN Swept(aggregations, FALSE)
    ELSE LET one == AccumulateAll(aggregations, Head(records)) IN
         IF one.raised THEN one ELSE Sweep(one.aggregations, Tail(records))

\* What a call of aggregate leaves: the aggregations, and what it returned.
Aggregated(aggregations, returned) ==
    [aggregations |-> aggregations, returned |-> returned]

\* query.aggregate(**aggregations) on a query of the given records.
AggregateCall(aggregations, records) ==
    LET reset == ResetAll(aggregations) IN
    IF reset.raised THEN Aggregated(reset.aggregations, Raise("AttributeError"))
    ELSE LET swept == Sweep(reset.aggregations, records) IN
         IF swept.raised THEN Aggregated(swept.aggregations, Raise("AttributeError"))
         ELSE IF FirstWithout(swept.aggregations, "result") # 0
         THEN Aggregated(swept.aggregations, Raise("AttributeError"))
         ELSE Aggregated(swept.aggregations,
                         [kind |-> "dict",
                          results |-> [i \in 1..Len(aggregations) |->
                                          Result(swept.aggregations[i])]])

TwoAges == Person(<<"g">>, <<IntVal(10), IntVal(40)>>, <<>>)
AggRecords == {Age30B, Age20Z, NoAgeA, TwoAges}
AggObjects ==
         {Count(IntVal(0)), Count(IntVal(2))}
    \cup {Max(Age, ResultNone), Max(Age, IntVal(99)), Min(Age, ResultNone), Min(Age, IntVal(0))}
    \cup {Recorder(has, Log(<<>>)) : has \in SUBSET Capabilities}

AggregateInputs ==
    [op : {"aggregate"},
     records : {r \in SeqsUpTo(AggRecords, MaxAggRecords) : NoDup(r)},
     aggregations : {<<a>> : a \in AggObjects} \cup Pairs(AggObjects)]

\* The calls of aggregate made so far with the aggregations drawn.
Returned == IF callDone THEN callOut.returned ELSE <<>>

\* query.aggregate(**aggregations), with the objects as the call before left
\* them.
AggregateRecords ==
    /\ callIn.op = "aggregate"
    /\ Len(Returned) < MaxSweeps
    /\ LET call == AggregateCall(IF callDone THEN callOut.aggregations
                                             ELSE callIn.aggregations,
                                 callIn.records)
       IN  callOut' = Aggregated(call.aggregations, Append(Returned, call.returned))
    /\ callDone' = TRUE
    /\ UNCHANGED callIn
    /\ UNCHANGED nonCallVars

NextAggregate ==
    \/ AggregateRecords

(***************************************************************************)
(* The attribute dictionaries of Connection.search and of                  *)
(* AnnotatedQuery._run_query.  A dictionary is a function of its keys; a   *)
(* value is a list (ListVal), a str (StrVal), an int (IntVal) or None.     *)
(***************************************************************************)
ListVal(values) == [type |-> "list", val |-> values]
NoneVal == [type |-> "none"]

Digits == {"0", "1", "2", "3", "4", "5", "6", "7", "8", "9"}
DigitVal(c) ==
    CASE c = "0" -> 0 [] c = "1" -> 1 [] c = "2" -> 2 [] c = "3" -> 3 [] c = "4" -> 4
      [] c = "5" -> 5 [] c = "6" -> 6 [] c = "7" -> 7 [] c = "8" -> 8 [] c = "9" -> 9
RECURSIVE IntOf(_)
\* int(v) of a text of digits.
IntOf(v) == IF v = <<>> THEN 0 ELSE IntOf(SubSeq(v, 1, Len(v) - 1)) * 10 + DigitVal(v[Len(v)])

\* _convert(values): each raw value an int when int() takes it, else a str.
Convert(values) ==
    [i \in 1..Len(values) |->
        IF values[i] # <<>> /\ \A j \in 1..Len(values[i]) : values[i][j] \in Digits
        THEN IntVal(IntOf(values[i]))
        ELSE StrVal(values[i])]

\* The dictionary Connection.search yields for an entry.
SearchAttrs(entry) ==
    [k \in DOMAIN entry.raw_attributes \cup {DnKey} |->
        IF k = DnKey THEN StrVal(entry.dn)
        ELSE ListVal(Convert(entry.raw_attributes[k]))]

\* list(conn.search(...)) over the entries the directory returns.
SearchRun(entries) == [i \in 1..Len(entries) |-> SearchAttrs(entries[i])]

\* attrs.get(attribute, [])
GetOrEmpty(attrs, attribute) ==
    IF attribute \in DOMAIN attrs THEN attrs[attribute] ELSE ListVal(<<>>)

\* An annotation: annotations.Count, Max or Min of an attribute, or the
\* caller's lambda attrs: attrs.get(attribute, []).
Annotation(fn, attribute) == [fn |-> fn, attribute |-> attribute]

\* What a call that raises TypeError gives.
TypeError == [type |-> "TypeError"]

\* func(attrs)
ApplyAnnotation(func, attrs) ==
    LET v == GetOrEmpty(attrs, func.attribute) IN
    CASE func.fn = "Count" ->
            IF v.type \in {"list", "str"} THEN IntVal(Len(v.val)) ELSE TypeError
      [] func.fn = "Max" ->
            IF v.type = "list"
            THEN IF v.val = <<>> THEN NoneVal ELSE MaxOf(v.val)
            ELSE IF v.type = "str"
            THEN IF v.val = <<>> THEN NoneVal
                 ELSE StrVal(<<CHOOSE c \in Range(v.val) :
                                  \A d \in Range(v.val) : Ord(d) <= Ord(c)>>)
            ELSE TypeError
      [] func.fn = "Min" -> TypeError
      [] OTHER -> v

RECURSIVE AnnotateOne(_, _)
\* for attr, func in self._annotations.items(): attrs[attr] = func(attrs);
\* the empty tuple when a func raises (a dictionary has the key dn).
AnnotateOne(attrs, annotations) ==
    IF annotations = <<>> THEN attrs
    ELSE LET attr == annotations[1][1]
             value == ApplyAnnotation(annotations[1][2], attrs)
         IN  IF value = TypeError THEN <<>>
             ELSE AnnotateOne([k \in DOMAIN attrs \cup {attr} |->
                                  IF k = attr THEN value ELSE attrs[k]],
                              Tail(annotations))

\* What iterating a query gives: the records, or the error raised.
Yielded(records) == [raised |-> "none", records |-> records]
Failed(error) == [raised |-> error, records |-> <<>>]

\* list(AnnotatedQuery(query, annotations)) over the records of query.
AnnotatedRun(records, annotations) ==
    LET out == [i \in 1..Len(records) |-> AnnotateOne(records[i], annotations)] IN
    IF \E i \in 1..Len(out) : out[i] = <<>>
    THEN Failed("TypeError")
    ELSE Yielded(out)

N == <<"n">>
Entry(dn, cn) == [dn |-> dn, raw_attributes |-> [k \in {Cn} |-> cn]]
AnnotateEntries ==
    {Entry(dn, cn) : dn \in {<<"a", "c">>, <<"b", "c">>},
                     cn \in {<< <<"a">> >>, << <<"a">>, <<"b">> >>, << <<"7">> >>,
                             << <<"1", "2">>, <<"3">> >>}}
AnnotationItems ==
    {<<name, Annotation(fn, attribute)>> :
        name \in {N, Cn},
        fn \in {"Count", "Max", "Min", "get"},
        attribute \in {Cn, DnKey, N}}

AnnotateInputs ==
         [op : {"search"},
          entries : {e \in SeqsUpTo(AnnotateEntries, MaxAnnotated) : NoDup(e)}]
    \cup [op : {"annotate"},
          entries : {e \in SeqsUpTo(AnnotateEntries, MaxAnnotated) : NoDup(e)},
          annotations : {a \in SeqsUpTo(AnnotationItems, MaxAnnotations) :
                            a # <<>> /\ NoDup([i \in 1..Len(a) |-> a[i][1]])}]

\* list(Query(conn, base_dn))
Search == Call("search", Yielded(SearchRun(callIn.entries)))
\* list(Query(conn, base_dn).annotate(**annotations))
Annotate == Call("annotate", AnnotatedRun(SearchRun(callIn.entries), callIn.annotations))

NextAnnotate ==
    \/ Search
    \/ Annotate

(***************************************************************************)
(* filter() and exclude() of a Query of subtree scope, and the first       *)
(* evaluation of the query they return.                                    *)
(***************************************************************************)
\* What the first evaluation gives: the error raised, and whether
\* Connection.search was called.
Evaluated(raised, searched) == [raised |-> raised, searched |-> searched]

\* A variant of FirstEvaluation that calls the search before it compiles.
FirstEvaluationSearchFirst(query) ==
    IF query.kind = "empty" THEN Evaluated("TypeError", FALSE)
    ELSE IF query.python # None /\ LocalRaises(query.python)
    THEN Evaluated("ValueError", TRUE)
    ELSE IF query.ldap # None /\ IsRaise(CompileFilter(query.ldap))
    THEN Evaluated("ValueError", TRUE)
    ELSE Evaluated("none", TRUE)

\* iter(query) for the first time.  The FilteredQuery, when there is one,
\* compiles its node before it iterates the Query under it; the Query
\* compiles its filter as an argument of conn.search; EmptyQuery.instance is
\* a function and cannot be iterated.
FirstEvaluation(query) ==
    IF query.kind = "empty" THEN Evaluated("TypeError", FALSE)
    ELSE IF query.python # None /\ LocalRaises(query.python)
    THEN Evaluated("ValueError", FALSE)
    ELSE IF query.ldap # None /\ IsRaise(CompileFilter(query.ldap))
    THEN Evaluated("ValueError", FALSE)
    ELSE Evaluated("none", TRUE)

\* query.filter(node) and query.exclude(node): the query returned.
QueryFilter(node) == FilterResult(SplitNode(node))
QueryExclude(node) == QueryFilter(Not_(node))

ValidateExprs ==
    {Expression(Cn, "exact", <<"a">>), Expression(Cn, "bogus", <<"a">>),
     Expression(Cn, "in", <<>>), Expression(Cn, "in", << <<"a">> >>),
     Expression(Cn, "gt", <<"a">>),
     Expression(DnKey, "exact", <<"a", "c">>), Expression(DnKey, "bogus", <<"a", "c">>),
     Expression(DnKey, "in", <<>>), Expression(DnKey, "exact", <<"b">>)}
ValidateInputs ==
    [op : {"filter", "exclude"},
     node : ValidateExprs \cup Combine(ValidateExprs)]

\* The returned query has been evaluated.
IsEvaluated == callDone /\ callOut.evaluated # NoCall

Composition(query, evaluated) == [query |-> query, evaluated |-> evaluated]

\* q = query.filter(node)
ComposeFilter == Call("filter", Composition(QueryFilter(callIn.node), NoCall))
\* q = query.exclude(node)
ComposeExclude == Call("exclude", Composition(QueryExclude(callIn.node), NoCall))
\* list(q)
Evaluate ==
    /\ callDone
    /\ callIn.op \in {"filter", "exclude"}
    /\ callOut.evaluated = NoCall
    /\ callOut' = [callOut EXCEPT !.evaluated = FirstEvaluation(callOut.query)]
    /\ UNCHANGED <<callIn, callDone>>
    /\ UNCHANGED nonCallVars

NextValidate ==
    \/ ComposeFilter
    \/ ComposeExclude
    \/ Evaluate

(***************************************************************************)
(* The fetch of a Query: Query._run_query on what the Query was given as   *)
(* conn, a Connection, or the ConnectionPool that                          *)
(* datamapper.Query.create gives it.                                       *)
(***************************************************************************)
\* The methods of the two classes.
Methods(cls) ==
    IF cls = "ConnectionPool" THEN {"acquire", "release", "close_all", "connection"}
    ELSE {"search", "create_entry", "update_entry", "set_entry_password",
          "rename_entry", "delete_entry", "close"}

\* What one fetch did: whether it acquired a connection of a pool and gave
\* it back, the object it searched with, the error raised and the records.
Fetched(acquired, released, searchedWith, raised, records) ==
    [acquired |-> acquired, released |-> released, searchedWith |-> searchedWith,
     raised |-> raised, records |-> records]

\* list(self._conn.search(self._base_dn, filter, self._scope)) of a Query
\* whose _conn is an object of class cls.
RunOn(cls, entries) ==
    IF "search" \in Methods(cls)
    THEN Fetched(FALSE, FALSE, "self._conn", "none", SearchRun(entries))
    ELSE Fetched(FALSE, FALSE, "none", "AttributeError", <<>>)

FetchInputs ==
    [op : {"fetch"},
     conn : {"Connection", "ConnectionPool"},
     entries : {e \in SeqsUpTo(AnnotateEntries, MaxAnnotated) : NoDup(e)}]

\* The fetches made so far by Query instances of the one _conn.
Fetches == IF callDone THEN callOut ELSE <<>>

\* list(q) of one more Query instance with that _conn (q.filter(...), which
\* passes query._conn on, or a Query built on it).
FetchQuery ==
    /\ callIn.op = "fetch"
    /\ Len(Fetches) < MaxFetches
    /\ callOut' = Append(Fetches, RunOn(callIn.conn, callIn.entries))
    /\ callDone' = TRUE
    /\ UNCHANGED callIn
    /\ UNCHANGED nonCallVars

NextFetch ==
    \/ FetchQuery

(***************************************************************************)
(* Query.filter on a Query of any base and scope, and the queries it       *)
(* returns run against a directory.  A dn is the text of its components,   *)
(* joined by commas.                                                       *)
(***************************************************************************)
Query(base_dn, filter, scope) ==
    [kind |-> "Query", base_dn |-> base_dn, filter |-> filter, scope |-> scope]
FilteredQuery(query, filter) ==
    [kind |-> "FilteredQuery", query |-> query, filter |-> filter]

ObjectClass == <<"o", "b", "j", "e", "c", "t", "C", "l", "a", "s", "s">>
\* F(objectClass__present = True), the filter of a Query given none.
CatchAll == Expression(ObjectClass, "present", TRUE)

\* A variant of NarrowToDn that keeps the base and the scope of the query.
NarrowToDnKeepsBase(self, dn) ==
    IF self.scope = "ENTITY"
    THEN IF Lower(dn.value) # Lower(self.base_dn) THEN EmptyResult ELSE self
    ELSE IF EndsWith(Lower(dn.value), Lower(self.base_dn))
    THEN self
    ELSE EmptyResult

\* The dn part of Query.filter: the query the search goes on with, or
\* EmptyQuery.instance.
NarrowToDn(self, dn) ==
    IF self.scope = "ENTITY"
    THEN IF Lower(dn.value) # Lower(self.base_dn) THEN EmptyResult ELSE self
    ELSE IF EndsWith(Lower(dn.value), Lower(self.base_dn))
    THEN Query(dn.value, self.filter, "ENTITY")
    ELSE EmptyResult

\* self.filter(node) of a Query.
FilterOf(self, node) ==
    LET parts == SplitNode(node)
        narrowed == IF parts.dn # None THEN NarrowToDn(self, parts.dn) ELSE self
    IN  IF narrowed = EmptyResult THEN EmptyResult
        ELSE LET pushed == IF parts.ldap # None
                           THEN Query(narrowed.base_dn, And_(narrowed.filter, parts.ldap),
                                      narrowed.scope)
                           ELSE narrowed
             IN  IF parts.python # None THEN FilteredQuery(pushed, parts.python)
                 ELSE pushed

\* dn is the entry base or an entry under it.
Under(dn, base) ==
    \/ Lower(dn) = Lower(base)
    \/ EndsWith(Lower(dn), <<",">> \o Lower(base))
\* dn is an entry immediately under base.
ChildOf(dn, base) ==
    /\ EndsWith(Lower(dn), <<",">> \o Lower(base))
    /\ Len(dn) > Len(base) + 1
    /\ \A i \in 1..(Len(dn) - Len(base) - 1) : dn[i] # ","
\* The entry is one the search of a scope from a base reaches.
InScope(dn, base, scope) ==
    CASE scope = "ENTITY" -> Lower(dn) = Lower(base)
      [] scope = "SINGLE_LEVEL" -> ChildOf(dn, base)
      [] scope = "SUBTREE" -> Under(dn, base)

\* The entries the directory returns for a search (none when there is no
\* entry at the base: NoSuchObject), in the order of the directory.
SearchEntries(entries, base, filter, scope) ==
    IF \A i \in 1..Len(entries) : Lower(entries[i].dn) # Lower(base) THEN <<>>
    ELSE SelectSeq(entries, LAMBDA rec : /\ InScope(rec.dn, base, scope)
                                           /\ ServerMatch(filter, rec, TRUE))

\* What running a query gives: the error raised, the records, and the
\* number of calls of Connection.search.
Ran(raised, records, calls) ==
    [raised |-> raised, records |-> records, searches |-> calls]

RECURSIVE RunOf(_, _)
\* list(query) of a query never iterated before.
RunOf(query, entries) ==
    CASE query.kind = "Query" ->
            LET compiled == CompileFilter(query.filter) IN
            IF IsRaise(compiled) THEN Ran("ValueError", <<>>, 0)
            ELSE Ran("none",
                     SearchEntries(entries, query.base_dn, compiled, query.scope), 1)
      [] query.kind = "FilteredQuery" ->
            IF LocalRaises(query.filter) THEN Ran("ValueError", <<>>, 0)
            ELSE LET under == RunOf(query.query, entries) IN
                 IF under.raised # "none" THEN under
                 ELSE Ran("none",
                          SelectSeq(under.records,
                                    LAMBDA rec : LocalEval(query.filter, rec)),
                          under.searches)
      [] OTHER -> Ran(EmptyOp("EmptyQuery.instance", "iter", 0).error, <<>>, 0)

\* The entries of the directory.
Person2(dn, cn) ==
    [dn |-> dn, attrs |-> [k \in {Cn, ObjectClass} |->
                              IF k = Cn THEN cn ELSE << <<"p">> >>]]
Directory ==
    <<Person2(<<"c">>, << <<"c">> >>),
      Person2(<<"a", ",", "c">>, << <<"a">> >>),
      Person2(<<"b", ",", "c">>, << <<"b">> >>),
      Person2(<<"b", ",", "a", ",", "c">>, << <<"a">>, <<"b">> >>),
      Person2(<<"a", "c">>, << <<"a">> >>)>>

DnValues ==
    {<<"c">>, <<"a", ",", "c">>, <<"A", ",", "c">>, <<"b", ",", "c">>,
     <<"b", ",", "a", ",", "c">>, <<"a", "c">>, <<"b">>}
DnExprs == {Expression(DnKey, "None", d) : d \in DnValues}
OtherExprs == {Expression(Cn, "None", <<"a">>), Expression(Cn, "gt", <<"a">>)}
DnNodes ==
         DnExprs
    \cup {AndNode(<<x, y>>) : x \in DnExprs \cup OtherExprs, y \in DnExprs \cup OtherExprs}
    \cup {AndNode(<<x, y, z>>) : x \in DnExprs, y \in {Expression(DnKey, "None", <<"a", ",", "c">>)},
                                 z \in OtherExprs}
    \cup {OrNode(<<x, y>>) : x \in DnExprs, y \in OtherExprs}
DnQueries ==
    {Query(base, filter, scope) :
        base \in {<<"c">>, <<"a", ",", "c">>},
        filter \in {CatchAll, AndNode(<<CatchAll, Expression(Cn, "None", <<"a">>)>>)},
        scope \in {"SINGLE_LEVEL", "SUBTREE", "ENTITY"}}

DnInputs == [op : {"dn"}, self : DnQueries, node : DnNodes]

\* What has been done with the query and the node drawn: the query that
\* filter returned, its run and the run of the query filter was called on.
DnSteps(query, ran, selfRan) == [query |-> query, ran |-> ran, selfRan |-> selfRan]
HasRun == callDone /\ callOut.ran # NoCall
SelfHasRun == callDone /\ callOut.selfRan # NoCall

\* q = self.filter(node)
FilterByDn == Call("dn", DnSteps(FilterOf(callIn.self, callIn.node), NoCall, NoCall))
\* list(q)
RunFiltered ==
    /\ Called("dn")
    /\ callOut.ran = NoCall
    /\ callOut' = [callOut EXCEPT !.ran = RunOf(callOut.query, Directory)]
    /\ UNCHANGED <<callIn, callDone>>
    /\ UNCHANGED nonCallVars
\* list(self)
RunSelf ==
    /\ Called("dn")
    /\ callOut.ran # NoCall
    /\ callOut.selfRan = NoCall
    /\ callOut' = [callOut EXCEPT !.selfRan = RunOf(callIn.self, Directory)]
    /\ UNCHANGED <<callIn, callDone>>
    /\ UNCHANGED nonCallVars

NextDn ==
    \/ FilterByDn
    \/ RunFiltered
    \/ RunSelf

(***************************************************************************)
(* A slice of a query: how much of its source iterating it takes.          *)
(***************************************************************************)
\* The source query of a slice: the records its _run_query would yield one
\* by one, and whether it has a _cache already.
Source(records, cached) == [records |-> records, cached |-> cached]

\* QueryBase._cached of the source: with no _cache yet, list(_run_query())
\* takes every record the source yields; fetched counts the records taken
\* from the source's _run_query by this call.
Cached(source) ==
    [cache |-> source.records,
     fetched |-> IF source.cached THEN 0 ELSE Len(source.records)]

\* The positions of the cache that the loop of SlicedQuery._run_query
\* visits: it breaks at position high.
Scanned(cached, high) ==
    IF high # NoHigh /\ high[1] < Len(cached) THEN high[1] + 1 ELSE Len(cached)

\* Iterating SlicedQuery(source, low, high, step): for attrs in self._query
\* is iter(source), that is iter(source._cached).
SliceRun(source, low, high, step) ==
    [records |-> SliceFrom(Cached(source).cache, 0, low, high, step),
     fetched |-> Cached(source).fetched,
     materialized |-> Len(Cached(source).cache),
     scanned |-> Scanned(Cached(source).cache, high)]

StreamHighs == {NoHigh} \cup {<<h>> : h \in 0..MaxHigh}
StreamInputs ==
    {[op |-> "stream", source |-> Source([i \in 1..n |-> i], c),
      low |-> l, high |-> h, step |-> st] :
        n \in 0..MaxStreamSource, c \in BOOLEAN, l \in 0..MaxLow,
        h \in StreamHighs, st \in 1..MaxStep}

\* list(q[low:high:step])
IterateSlice ==
    Call("stream", SliceRun(callIn.source, callIn.low, callIn.high, callIn.step))

NextStream ==
    \/ IterateSlice

(***************************************************************************)
(* A Query iterated, a query derived from it iterated, and the Query       *)
(* iterated again.  The _cache of the Query is a list of dictionaries, and *)
(* a derived query iterates over those same dictionaries.                  *)
(***************************************************************************)
RECURSIVE AnnotateAttrs(_, _)
\* for attr, func in self._annotations.items(): attrs[attr] = func(attrs),
\* on the dictionary attrs itself: what it holds when the loop ends or a
\* func raises.
AnnotateAttrs(attrs, annotations) ==
    IF annotations = <<>> THEN [attrs |-> attrs, raised |-> "none"]
    ELSE LET attr == annotations[1][1]
             value == ApplyAnnotation(annotations[1][2], attrs)
         IN  IF value = TypeError THEN [attrs |-> attrs, raised |-> "TypeError"]
             ELSE AnnotateAttrs([k \in DOMAIN attrs \cup {attr} |->
                                    IF k = attr THEN value ELSE attrs[k]],
                                Tail(annotations))

RECURSIVE AnnotateInPlace(_, _, _)
\* AnnotatedQuery._run_query from the dictionary at position i of the
\* upstream's cache on: the cache afterwards and the error raised.
AnnotateInPlace(cached, i, annotations) ==
    IF i > Len(cached) THEN [cache |-> cached, raised |-> "none"]
    ELSE LET one == AnnotateAttrs(cached[i], annotations)
             written == [cached EXCEPT ![i] = one.attrs]
         IN  IF one.raised # "none" THEN [cache |-> written, raised |-> one.raised]
             ELSE AnnotateInPlace(written, i + 1, annotations)

\* What iterating a derived query gives and what it leaves in the cache
\* of the query it derives from.
DerivedRun(ran, cached) == [ran |-> ran, cache |-> cached]

\* list(q.annotate(**annotations)): the dictionaries yielded are those of
\* the cache of q.
RunAnnotated(cached, annotations) ==
    LET done == AnnotateInPlace(cached, 1, annotations) IN
    DerivedRun(IF done.raised = "none" THEN Yielded(done.cache) ELSE Failed(done.raised),
               done.cache)

\* list(q.select(*attributes)): a new dictionary for every record.
RunSelected(cached, attributes) ==
    DerivedRun(Yielded([i \in 1..Len(cached) |->
                           [k \in DOMAIN cached[i] \cap attributes |-> cached[i][k]]]),
               cached)

\* frozenset((k, frozenset(v)) for k, v in attrs.items())
HashableAttrs(attrs) == {<<k, Range(attrs[k].val)>> : k \in DOMAIN attrs}

RECURSIVE DistinctAttrs(_, _)
DistinctAttrs(records, seen) ==
    IF records = <<>> THEN <<>>
    ELSE IF HashableAttrs(Head(records)) \in seen
    THEN DistinctAttrs(Tail(records), seen)
    ELSE <<Head(records)>> \o
         DistinctAttrs(Tail(records), seen \cup {HashableAttrs(Head(records))})

\* list(q.distinct())
RunDistinct(cached) == DerivedRun(Yielded(DistinctAttrs(cached, {})), cached)

RECURSIVE SortedByDn(_)
\* sorted(records, key = cmp_to_key(compare)) for the ordering 'dn'.
SortedByDn(records) ==
    IF records = <<>> THEN <<>>
    ELSE LET sorted == SortedByDn(SubSeq(records, 1, Len(records) - 1))
             res == records[Len(records)]
             later == {i \in 1..Len(sorted) : StrLess(res[DnKey].val, sorted[i][DnKey].val)}
             at == IF later = {} THEN Len(sorted) + 1
                   ELSE CHOOSE i \in later : \A j \in later : i <= j
         IN  SubSeq(sorted, 1, at - 1) \o <<res>> \o SubSeq(sorted, at, Len(sorted))

\* list(q.order_by('dn'))
RunOrdered(cached) == DerivedRun(Yielded(SortedByDn(cached)), cached)

\* list(q[low:high])
RunSliced(cached, low, high) ==
    DerivedRun(Yielded(SliceFrom(cached, 0, low, high, 1)), cached)

\* list(q.filter(cn = value)): a new Query, which searches for itself.
RunFilteredByCn(entries, cached, value) ==
    DerivedRun(Yielded(SearchRun(SelectSeq(entries,
                   LAMBDA e : value \in Range(e.raw_attributes[Cn])))),
               cached)

DerivedQueries ==
         [kind : {"annotate"},
          annotations : {a \in SeqsUpTo(AnnotationItems, MaxAnnotations) :
                            a # <<>> /\ NoDup([i \in 1..Len(a) |-> a[i][1]])}]
    \cup [kind : {"select"}, attributes : {{Cn}, {DnKey}, {Cn, DnKey}, {N}}]
    \cup [kind : {"distinct", "order_by"}]
    \cup [kind : {"slice"}, low : 0..1, high : {NoHigh, <<1>>}]
    \cup [kind : {"filter"}, value : {<<"a">>, <<"7">>}]

SnapshotEntries ==
    {Entry(dn, cn) : dn \in {<<"a", "c">>, <<"b", "c">>},
                     cn \in {<< <<"a">>, <<"b">> >>, << <<"7">> >>}}
SnapshotInputs ==
    [op : {"snapshot"},
     entries : {e \in SeqsUpTo(SnapshotEntries, MaxAnnotated) : NoDup(e)},
     derived : DerivedQueries]

\* The first iteration of q, the derived query iterated, q iterated again.
SnapshotSteps(first, cached, step, ran, again) ==
    [first |-> first, cache |-> cached, step |-> step, ran |-> ran, again |-> again]

\* list(q): _cache = list(self._run_query())
IterateFirst ==
    Call("snapshot", SnapshotSteps(SearchRun(callIn.entries), SearchRun(callIn.entries),
                                   "first", NoCall, <<>>))

\* The derived query of kind kind iterated, giving run.
DerivedIterated(kind, run) ==
    /\ Called("snapshot")
    /\ callOut.step = "first"
    /\ callIn.derived.kind = kind
    /\ callOut' = [callOut EXCEPT !.step = "derived", !.ran = run.ran,
                                   !.cache = run.cache]
    /\ UNCHANGED <<callIn, callDone>>
    /\ UNCHANGED nonCallVars

IterateAnnotated ==
    DerivedIterated("annotate", RunAnnotated(callOut.cache, callIn.derived.annotations))
IterateSelected ==
    DerivedIterated("select", RunSelected(callOut.cache, callIn.derived.attributes))
IterateDistinct == DerivedIterated("distinct", RunDistinct(callOut.cache))
IterateOrdered == DerivedIterated("order_by", RunOrdered(callOut.cache))
IterateSliced ==
    DerivedIterated("slice", RunSliced(callOut.cache, callIn.derived.low, callIn.derived.high))
IterateFiltered ==
    DerivedIterated("filter", RunFilteredByCn(callIn.entries, callOut.cache,
                                             callIn.derived.value))

\* list(q) again: iter(self._cached)
IterateAgain ==
    /\ Called("snapshot")
    /\ callOut.step = "derived"
    /\ callOut' = [callOut EXCEPT !.step = "again", !.again = callOut.cache]
    /\ UNCHANGED <<callIn, callDone>>
    /\ UNCHANGED nonCallVars

NextSnapshot ==
    \/ IterateFirst
    \/ IterateAnnotated
    \/ IterateSelected
    \/ IterateDistinct
    \/ IterateOrdered
    \/ IterateSliced
    \/ IterateFiltered
    \/ IterateAgain

(***************************************************************************)
(* AnnotatedQuery.filter: the node split between the upstream query and a  *)
(* FilteredQuery around the annotated one, and the query returned run.     *)
(* A record is the dn and the attributes of an entry; a value that an      *)
(* annotation gives and that is no list (the int of Count) is held as the  *)
(* list of that one value, the attribute being named in scalar.  An int is *)
(* written in digits; no value of the directory is.                        *)
(***************************************************************************)
AnnotatedQuery(query, annotations) ==
    [kind |-> "AnnotatedQuery", query |-> query, annotations |-> annotations]

\* The keys of self._annotations.
AnnotationNames(annotations) == {annotations[i][1] : i \in 1..Len(annotations)}

\* left and right of _split_node for the children of an AndNode.
Joined(nodes) ==
    IF Len(nodes) >= 2 THEN AndNode(nodes)
    ELSE IF nodes # <<>> THEN nodes[1] ELSE None

RECURSIVE AnnotatedSplit(_, _)
\* AnnotatedQuery._split_node: (left, right).
AnnotatedSplit(node, names) ==
    CASE node.kind = "expr" ->
            IF node.field \in names THEN [left |-> None, right |-> node]
            ELSE [left |-> node, right |-> None]
      [] node.kind = "and" ->
            LET split == [i \in 1..Len(node.children) |->
                             AnnotatedSplit(node.children[i], names)]
            IN  [left |-> Joined(NotNone([i \in 1..Len(split) |-> split[i].left])),
                 right |-> Joined(NotNone([i \in 1..Len(split) |-> split[i].right]))]
      [] node.kind = "or" ->
            IF \E i \in 1..Len(node.children) :
                  AnnotatedSplit(node.children[i], names).right # None
            THEN [left |-> None, right |-> node]
            ELSE [left |-> node, right |-> None]
      [] node.kind = "not" ->
            IF AnnotatedSplit(node.child, names).right # None
            THEN [left |-> None, right |-> node]
            ELSE [left |-> node, right |-> None]

\* self.filter(node) of an AnnotatedQuery.
AnnotatedFilter(self, node) ==
    LET parts == AnnotatedSplit(node, AnnotationNames(self.annotations))
        upstream == IF parts.left # None
                    THEN AnnotatedQuery(FilterOf(self.query, parts.left), self.annotations)
                    ELSE self
    IN  IF parts.right # None THEN FilteredQuery(upstream, parts.right) ELSE upstream

\* str(n) of a count.
DigitsOf(n) == <<CHOOSE c \in Digits : DigitVal(c) = n>>

RECURSIVE AnnotateRecord(_, _)
\* for attr, func in self._annotations.items(): attrs[attr] = func(attrs),
\* func being Count(attribute) or lambda attrs: attrs.get(attribute, []);
\* len() of an int raises TypeError.
AnnotateRecord(rec, annotations) ==
    IF annotations = <<>> THEN [raised |-> "none", rec |-> rec]
    ELSE LET attr == annotations[1][1]
             func == annotations[1][2]
             of == Get(rec, func.attribute, <<>>)
             counted == func.fn = "Count"
             value == IF counted THEN <<DigitsOf(Len(of))>> ELSE of
         IN  IF counted /\ func.attribute \in rec.scalar
             THEN [raised |-> "TypeError", rec |-> rec]
             ELSE AnnotateRecord(
                      [dn |-> rec.dn,
                       attrs |-> [k \in DOMAIN rec.attrs \cup {attr} |->
                                     IF k = attr THEN value ELSE rec.attrs[k]],
                       scalar |-> IF counted \/ (func.attribute \in rec.scalar)
                                  THEN rec.scalar \cup {attr}
                                  ELSE rec.scalar \ {attr}],
                      Tail(annotations))

\* bool(attrs.get(field, ())): of an int, that it is not 0.
Truth(rec, field) ==
    IF field \in rec.scalar THEN Get(rec, field, <<>>) # << <<"0">> >>
    ELSE Get(rec, field, <<>>) # <<>>

RECURSIVE AnnotatedEval(_, _)
RECURSIVE AllOf(_, _)
RECURSIVE AnyOf(_, _)
\* filter_func(attrs) of FilteredQuery on an annotated record: "true",
\* "false", or the error raised (iterating over an int).
AnnotatedEval(node, rec) ==
    CASE node.kind = "expr" ->
            LET lookup == LookupOf(node) IN
            IF Lower(node.field) = DnKey
            THEN IF DnFunc(lookup, node.value, Get(rec, node.field, <<>>))
                 THEN "true" ELSE "false"
            ELSE IF lookup = "present"
            THEN IF node.value = Truth(rec, node.field) THEN "true" ELSE "false"
            ELSE IF lookup = "isnull"
            THEN IF node.value # Truth(rec, node.field) THEN "true" ELSE "false"
            ELSE IF node.field \in rec.scalar THEN "TypeError"
            ELSE LET values == Get(rec, node.field, <<>>) IN
                 IF \E i \in 1..Len(values) : ElemFunc(lookup, node.value, values[i])
                 THEN "true" ELSE "false"
      [] node.kind = "and" -> AllOf(node.children, rec)
      [] node.kind = "or" -> AnyOf(node.children, rec)
      [] node.kind = "not" ->
            LET child == AnnotatedEval(node.child, rec) IN
            IF child = "true" THEN "false" ELSE IF child = "false" THEN "true" ELSE child
\* all(f(attrs) for f in child_funcs)
AllOf(children, rec) ==
    IF children = <<>> THEN "true"
    ELSE LET first == AnnotatedEval(children[1], rec) IN
         IF first = "true" THEN AllOf(Tail(children), rec) ELSE first
\* any(f(attrs) for f in child_funcs)
AnyOf(children, rec) ==
    IF children = <<>> THEN "false"
    ELSE LET first == AnnotatedEval(children[1], rec) IN
         IF first = "false" THEN AnyOf(Tail(children), rec) ELSE first

RECURSIVE RunAnnotatedOf(_, _)
\* list(query) of an AnnotatedQuery, or of a FilteredQuery around one, never
\* iterated before.
RunAnnotatedOf(query, entries) ==
    CASE query.kind = "AnnotatedQuery" ->
            LET under == RunOf(query.query, entries)
                out == [i \in 1..Len(under.records) |->
                           AnnotateRecord([dn |-> under.records[i].dn,
                                           attrs |-> under.records[i].attrs,
                                           scalar |-> {}],
                                          query.annotations)]
            IN  IF under.raised # "none" THEN under
                ELSE IF \E i \in 1..Len(out) : out[i].raised # "none"
                THEN Ran("TypeError", <<>>, under.searches)
                ELSE Ran("none", [i \in 1..Len(out) |-> out[i].rec], under.searches)
      [] query.kind = "FilteredQuery" ->
            IF LocalRaises(query.filter) THEN Ran("ValueError", <<>>, 0)
            ELSE LET under == RunAnnotatedOf(query.query, entries) IN
                 IF under.raised # "none" THEN under
                 ELSE IF \E i \in 1..Len(under.records) :
                            AnnotatedEval(query.filter, under.records[i]) = "TypeError"
                 THEN Ran("TypeError", <<>>, under.searches)
                 ELSE Ran("none",
                          SelectSeq(under.records,
                                    LAMBDA rec : AnnotatedEval(query.filter, rec) = "true"),
                          under.searches)

\* The annotations: n or cn, the count of cn or the list cn itself.
SplitAnnotations ==
    LET items == {<<name, Annotation(fn, Cn)>> : name \in {N, Cn}, fn \in {"Count", "get"}}
    IN  {a \in SeqsUpTo(items, MaxAnnotations) :
            a # <<>> /\ NoDup([i \in 1..Len(a) |-> a[i][1]])}
SplitExprs ==
    {Expression(Cn, "None", <<"a">>), Expression(Cn, "present", TRUE),
     Expression(N, "None", <<"1">>), Expression(N, "present", TRUE),
     Expression(DnKey, "None", <<"a", ",", "c">>)}
SplitNodes ==
         SplitExprs
    \cup Combine(SplitExprs)
    \cup {AndNode(<<x, y, z>>) : x \in SplitExprs, y \in SplitExprs, z \in SplitExprs}
    \cup {AndNode(<<x, OrNode(<<y, z>>)>>) : x \in SplitExprs, y \in SplitExprs,
                                            z \in SplitExprs}
    \cup {AndNode(<<x, NotNode(y)>>) : x \in SplitExprs, y \in SplitExprs}
SplitInputs ==
    [op : {"annotated"},
     self : {AnnotatedQuery(Query(<<"c">>, CatchAll, scope), a) :
                scope \in {"SINGLE_LEVEL", "SUBTREE"}, a \in SplitAnnotations},
     node : SplitNodes]

\* q = self.filter(node)
FilterAnnotated ==
    Call("annotated", [query |-> AnnotatedFilter(callIn.self, callIn.node), ran |-> NoCall])
\* list(q)
RunAnnotatedFiltered ==
    /\ Called("annotated")
    /\ callOut.ran = NoCall
    /\ callOut' = [callOut EXCEPT !.ran = RunAnnotatedOf(callOut.query, Directory)]
    /\ UNCHANGED <<callIn, callDone>>
    /\ UNCHANGED nonCallVars

NextSplit ==
    \/ FilterAnnotated
    \/ RunAnnotatedFiltered

(***************************************************************************)
(* The specifications.                                                     *)
(***************************************************************************)
\* Threads using one pool; the query is left alone.
InitPool == PoolInit /\ QueryUnused /\ FilterUnused /\ ChainUnused /\ CallUnused
SpecPool == InitPool /\ [][NextPool]_vars

\* Fetch operations on one query while the directory changes; the pool is
\* left alone.
InitQuery == PoolInit /\ QueryInit /\ FilterUnused /\ ChainUnused /\ CallUnused
SpecQuery == InitQuery /\ [][NextQuery]_vars

\* One node filtered, run and evaluated against one record; the pool and the
\* fetches are left alone.
InitFilter == PoolInit /\ QueryUnused /\ FilterInit /\ ChainUnused /\ CallUnused
SpecFilter == InitFilter /\ [][NextFilter]_vars

\* Two derived queries iterated while the directory changes.
InitChain == PoolInit /\ QueryUnused /\ FilterUnused /\ ChainInit /\ CallUnused
SpecChain == InitChain /\ [][NextChain]_vars

\* One slice composed and iterated.
InitSlice == PoolInit /\ QueryUnused /\ FilterUnused /\ ChainUnused /\ CallInit(SliceInputs)
SpecSlice == InitSlice /\ [][NextSlice]_vars

\* One sequence of records sorted.
InitOrder == PoolInit /\ QueryUnused /\ FilterUnused /\ ChainUnused /\ CallInit(OrderInputs)
SpecOrder == InitOrder /\ [][NextOrder]_vars

\* One sequence of records made distinct.
InitDistinct == PoolInit /\ QueryUnused /\ FilterUnused /\ ChainUnused /\ CallInit(DistinctInputs)
SpecDistinct == InitDistinct /\ [][NextDistinct]_vars

\* One operation applied to the empty query.
InitEmpty == PoolInit /\ QueryUnused /\ FilterUnused /\ ChainUnused /\ CallInit(EmptyInputs)
SpecEmpty == InitEmpty /\ [][NextEmpty]_vars

\* One 'in' lookup compiled and searched with.
InitCompile == PoolInit /\ QueryUnused /\ FilterUnused /\ ChainUnused /\ CallInit(CompileInputs)
SpecCompile == InitCompile /\ [][NextCompile]_vars

\* Two or more filter nodes combined once.
InitNode == PoolInit /\ QueryUnused /\ FilterUnused /\ ChainUnused /\ CallInit(NodeInputs)
SpecNode == InitNode /\ [][NextNode]_vars

\* aggregate() called, and called again with the same objects.
InitAggregate == PoolInit /\ QueryUnused /\ FilterUnused /\ ChainUnused /\ CallInit(AggregateInputs)
SpecAggregate == InitAggregate /\ [][NextAggregate]_vars

\* A query, plain or annotated, iterated once.
InitAnnotate == PoolInit /\ QueryUnused /\ FilterUnused /\ ChainUnused /\ CallInit(AnnotateInputs)
SpecAnnotate == InitAnnotate /\ [][NextAnnotate]_vars

\* A node given to filter() or exclude(), and the returned query evaluated.
InitValidate == PoolInit /\ QueryUnused /\ FilterUnused /\ ChainUnused /\ CallInit(ValidateInputs)
SpecValidate == InitValidate /\ [][NextValidate]_vars

\* Query instances of one connection or pool fetched.
InitFetch == PoolInit /\ QueryUnused /\ FilterUnused /\ ChainUnused /\ CallInit(FetchInputs)
SpecFetch == InitFetch /\ [][NextFetch]_vars

\* filter() with dn predicates on a Query, and the queries run.
InitDn == PoolInit /\ QueryUnused /\ FilterUnused /\ ChainUnused /\ CallInit(DnInputs)
SpecDn == InitDn /\ [][NextDn]_vars

\* Slices of a source of counted records iterated.
InitStream == PoolInit /\ QueryUnused /\ FilterUnused /\ ChainUnused /\ CallInit(StreamInputs)
SpecStream == InitStream /\ [][NextStream]_vars

\* A Query iterated before and after a query derived from it.
InitSnapshot == PoolInit /\ QueryUnused /\ FilterUnused /\ ChainUnused /\ CallInit(SnapshotInputs)
SpecSnapshot == InitSnapshot /\ [][NextSnapshot]_vars

\* filter() on an AnnotatedQuery, and the query it returns run.
InitSplit == PoolInit /\ QueryUnused /\ FilterUnused /\ ChainUnused /\ CallInit(SplitInputs)
SpecSplit == InitSplit /\ [][NextSplit]_vars

(***************************************************************************)
(* The pool: what is claimed of it.                                        *)
(***************************************************************************)
\* Thread t has connection c checked out.
Holds(t, c) ==
    /\ ctx[t].conn = c
    /\ pc[t] \in {"body", "release_load", "release_put", "close"}

InSomeQueue(c) == \E q \in Queues : \E i \in 1..Len(qitems[q]) : qitems[q][i] = c

\* Queue object q is the old queue of a close_all that has not returned yet.
BeingDrained(q) ==
    \E t \in Threads : pc[t] \in {"close_all_store", "close_all_drain"} /\ qref[t] = q

\* C3: every exit from the body run under connection() leaves the connection
\* either released to the pool or closed, exactly one of the two, exactly once.
C3_EveryExitReleasesOrCloses ==
    \A t \in Threads : pc[t] = "exit" => ctx[t].rel + ctx[t].cls = 1

\* C4: connection() decides by the kind of outcome: normal completion
\* releases; an OperationalError releases and re-raises; any other LDAPError
\* closes without pooling and re-raises; any other Exception releases and
\* re-raises.
C4_DisposalByOutcomeKind ==
    \A t \in Threads : pc[t] = "exit" =>
        LET o == ctx[t].outcome IN
        /\ o = "ok" =>
              ctx[t].rel = 1 /\ ctx[t].cls = 0 /\ ctx[t].raised = "none"
        /\ IsSubclass(o, "OperationalError") =>
              ctx[t].rel = 1 /\ ctx[t].cls = 0 /\ ctx[t].raised = o
        /\ (IsSubclass(o, "LDAPError") /\ ~IsSubclass(o, "OperationalError")) =>
              /\ ctx[t].rel = 0 /\ ctx[t].cls = 1 /\ ctx[t].raised = o
              /\ ctx[t].fate = "closed"
              /\ connState[ctx[t].conn] = "closed"
              /\ ~InSomeQueue(ctx[t].conn)
        /\ (IsSubclass(o, "Exception") /\ ~IsSubclass(o, "LDAPError")) =>
              ctx[t].rel = 1 /\ ctx[t].cls = 0 /\ ctx[t].raised = o

\* C4's case: one thread has left with a ConnectionError and its connection
\* closed, the other with a NoSuchObjectError and its connection released.
C4_Witness ==
    \E t, u \in Threads :
        /\ pc[t] = "exit" /\ ctx[t].outcome = "NoServerAvailableError"
        /\ ctx[t].cls = 1
        /\ pc[u] = "exit" /\ ctx[u].outcome = "NoSuchObjectError"
        /\ ctx[u].rel = 1 /\ ctx[u].fate = "pooled"

\* C5: a connection is checked out by at most one thread at a time, and a
\* checked-out connection is in no idle set.
C5_ExclusiveOwnership ==
    \A c \in Conns :
        /\ Cardinality({t \in Threads : Holds(t, c)}) <= 1
        /\ (\E t \in Threads : Holds(t, c)) => ~InSomeQueue(c)

\* C5's case: a thread holds a connection it took from the idle set, which
\* another thread had released, while the other thread holds one too.
C5_Witness ==
    \E t, u \in Threads :
        /\ t # u
        /\ pc[t] = "body" /\ ctx[t].acqSaw > 0
        /\ pc[u] = "body" /\ ctx[u].conn # ctx[t].conn

\* C6: no connection is ever stored in a discarded idle set: a queue object
\* that is neither the pool's current queue nor still being emptied by a
\* close_all holds nothing.
C6_NoConnInDiscardedQueue ==
    \A q \in Queues : (q # queue /\ ~BeingDrained(q)) => qitems[q] = <<>>

\* C7: release pools the connection when the idle set holds fewer than the
\* pool's capacity and closes it otherwise; the idle set never exceeds the
\* capacity.
C7_ReleaseWithinCapacity ==
    /\ \A t \in Threads : (pc[t] = "exit" /\ ctx[t].rel = 1) =>
          /\ ctx[t].relSaw < QueueMax => ctx[t].fate = "pooled"
          /\ ctx[t].relSaw >= QueueMax => ctx[t].fate = "closed"
    /\ \A q \in Queues : Len(qitems[q]) <= QueueMax

\* C8: a connection released after close_all has run is closed at once, not
\* pooled.
C8_ReleaseAfterCloseAllCloses ==
    \A t \in Threads : (pc[t] = "exit" /\ ctx[t].rel = 1 /\ ctx[t].relAfter) =>
        /\ ctx[t].fate = "closed"
        /\ connState[ctx[t].conn] = "closed"

\* acquire returns a connection to thread t.
AcquireReturns(t) == (AcquireIdle(t) \/ AcquireNew(t)) /\ pc'[t] = "body"

\* C9: acquire hands out an idle connection without authenticating whenever
\* the idle set it looks at is not empty, authenticates only when that set
\* is empty, and can return a connection however many are checked out.
C9_IdleFirstNeverBlocked ==
    \A t \in Threads :
        /\ pc[t] \in {"body", "acquire_failed"} =>
              /\ ctx[t].acqSaw > 0 => (ctx[t].auths = 0 /\ ctx[t].conn # NoConn)
              /\ ctx[t].auths > 0 => ctx[t].acqSaw = 0
              /\ ctx[t].auths + (IF ctx[t].acqSaw > 0 THEN 1 ELSE 0) = 1
        /\ (pc[t] = "acquire_get" /\ FreshConns # {}) => ENABLED AcquireReturns(t)

\* C9's case: a thread got an idle connection without authenticating, and
\* the other got a new one while the connections checked out exceed the
\* capacity of the pool.
C9_Witness ==
    \E t, u \in Threads :
        /\ t # u
        /\ pc[t] = "body" /\ ctx[t].acqSaw > 0 /\ ctx[t].auths = 0
        /\ pc[u] = "body" /\ ctx[u].auths = 1
        /\ Cardinality({c \in Conns : \E v \in Threads : Holds(v, c)}) > QueueMax

\* C10: a failed acquire has either met an authentication failure, raised
\* without trying another server, or has tried every candidate server in
\* order and raises NoServerAvailableError.
C10_ServerFallback ==
    \A t \in Threads : pc[t] = "acquire_failed" =>
        \/ ctx[t].raised = "AuthenticationError" /\ ctx[t].auths = 1
        \/ ctx[t].raised = "NoServerAvailableError" /\ ctx[t].tried = Servers

C2_PushdownPreservesResults ==
    fphase = "done" => (accepted <=> direct)

SlicePositions(n, low, high, step) ==
    {pos \in 0..(n - 1) :
        /\ pos >= low
        /\ high # NoHigh => pos < high[1]
        /\ (pos - low) % step = 0}

\* The records of src at the positions of P, in the order of src.
AtPositions(src, P) ==
    [i \in 1..Cardinality(P) |->
        src[(CHOOSE pos \in P : Cardinality({x \in P : x < pos}) = i - 1) + 1]]

\* low, high and step as Python reads the slice given.
GivenLow == IF callIn.op = "sliced_query" THEN callIn.low ELSE SliceArgs(callIn.key).low
GivenHigh == IF callIn.op = "sliced_query" THEN callIn.high ELSE callIn.key.stop
GivenStep == IF callIn.op = "sliced_query" THEN callIn.step ELSE SliceArgs(callIn.key).step

\* C12: for low >= 0, high absent or >= 0 and step >= 1, the slice
\* [low:high:step] yields exactly the source records at the positions low,
\* low + step, low + 2 step, ... below high (to the end when high is
\* absent), in the order of the source.
C12_SliceYieldsPositions ==
    (callDone /\ callIn.op \in {"getitem_slice", "sliced_query"}
       /\ GivenLow >= 0 /\ (GivenHigh # NoHigh => GivenHigh[1] >= 0) /\ GivenStep >= 1)
    => /\ callOut.raised = "none"
       /\ callOut.records =
             AtPositions(callIn.src,
                         SlicePositions(Len(callIn.src), GivenLow, GivenHigh, GivenStep))

\* C12's case: [2:5:1] of ten records has given the records at 2, 3 and 4.
C12_Witness ==
    /\ Called("getitem_slice")
    /\ Len(callIn.src) = 10
    /\ callIn.key = SliceKey(<<2>>, <<5>>, <<1>>)
    /\ callOut.records = <<2, 3, 4>>

\* C13: a slice with a negative low, a negative high or a step that is not
\* positive, given as q[a:b:step], to SlicedQuery or as a negative index,
\* fails with TypeError when it is composed, and no SlicedQuery is made.
C13_BadSliceRejected ==
    (callDone /\ callIn.op \in {"getitem_slice", "sliced_query", "getitem_int"}) =>
        LET low  == CASE callIn.op = "sliced_query" -> <<callIn.low>>
                      [] callIn.op = "getitem_int" -> <<callIn.k>>
                      [] OTHER -> callIn.key.start
            high == CASE callIn.op = "sliced_query" -> callIn.high
                      [] callIn.op = "getitem_int" -> <<>>
                      [] OTHER -> callIn.key.stop
            step == CASE callIn.op = "sliced_query" -> <<callIn.step>>
                      [] callIn.op = "getitem_int" -> <<>>
                      [] OTHER -> callIn.key.step
        IN  (\/ (low # <<>> /\ low[1] < 0)
             \/ (high # <<>> /\ high[1] < 0)
             \/ (step # <<>> /\ step[1] < 1))
            => (callOut.raised = "TypeError" /\ ~callOut.created)

(***************************************************************************)
(* Orderings: what is claimed of them.                                     *)
(***************************************************************************)
\* order_by('-age', 'name') has been applied to the three records of the
\* example.
ExampleOrdered ==
    /\ Called("order_by")
    /\ callIn.src = <<Age30B, Age30A, Age20Z>>
    /\ callIn.orderings = <<Descending(Age), Name>>

\* C14, as claimed: order_by('-age', 'name') on age30/b, age30/a, age20/z
\* yields age20/z, age30/a, age30/b.
C14_ExampleYoungestFirst ==
    ExampleOrdered => callOut = <<Age20Z, Age30A, Age30B>>

\* C14, amended: order_by('-age', 'name') on age30/b, age30/a, age20/z yields
\* age30/a, age30/b, age20/z: the greater age first, equal ages by name
\* ascending.  In general a record precedes another only if the first
\* ordering on which their values differ says so: greater first when the
\* ordering is descending, lesser first when it is ascending.
C14_ExampleOldestFirst ==
    /\ ExampleOrdered => callOut = <<Age30A, Age30B, Age20Z>>
    /\ Called("order_by") =>
          /\ Len(callOut) = Len(callIn.src)
          /\ \A i, j \in 1..Len(callOut) : i < j =>
                \A k \in 1..Len(callIn.orderings) :
                    LET to_apply == ToApply(callIn.orderings)
                        vi == Get(callOut[i], to_apply[k].attr, <<>>)
                        vj == Get(callOut[j], to_apply[k].attr, <<>>)
                    IN  (\A h \in 1..(k - 1) :
                            Get(callOut[i], to_apply[h].attr, <<>>) =
                            Get(callOut[j], to_apply[h].attr, <<>>))
                        => IF to_apply[k].descending
                           THEN ~ListLess(vi, vj) ELSE ~ListLess(vj, vi)

\* C14's case: the example has been sorted and the eldest come first.
C14_Witness ==
    /\ ExampleOrdered
    /\ callOut[1].attrs[Age] = <<IntVal(30)>>
    /\ callOut[3].attrs[Age] = <<IntVal(20)>>

\* Record res lacks attribute attr.
Lacks(res, attr) == Get(res, attr, <<>>) = <<>>

\* C15: in an ascending ordering on an attribute every record lacking it
\* comes after every record having it (before, when descending); records
\* equal on an ordering are ordered by the next, and records equal on all
\* orderings keep the order they came in.
C15_AbsentSortsLast ==
    (Called("order_by") /\ callIn.orderings # <<>>) =>
        LET to_apply == ToApply(callIn.orderings)
            attr == to_apply[1].attr
        IN  /\ \A i, j \in 1..Len(callOut) : i < j =>
                  IF to_apply[1].descending
                  THEN ~(~Lacks(callOut[i], attr) /\ Lacks(callOut[j], attr))
                  ELSE ~(Lacks(callOut[i], attr) /\ ~Lacks(callOut[j], attr))
            /\ \A i, j \in 1..Len(callOut) : i < j =>
                  Compare(to_apply, callOut[i], callOut[j]) <= 0
            /\ NoDup(callIn.src) =>
                  \A i, j \in 1..Len(callIn.src) :
                      (i < j /\ Compare(to_apply, callIn.src[i], callIn.src[j]) = 0) =>
                          \E a, b \in 1..Len(callOut) :
                              /\ a < b
                              /\ callOut[a] = callIn.src[i]
                              /\ callOut[b] = callIn.src[j]

(***************************************************************************)
(* distinct(): what is claimed of it.                                      *)
(***************************************************************************)
\* Two records have the same dn, the same attribute names and, for every
\* attribute, the same set of values.
SameGroup(res1, res2) ==
    /\ res1.dn = res2.dn
    /\ DOMAIN res1.attrs = DOMAIN res2.attrs
    /\ \A k \in DOMAIN res1.attrs :
          FrozenSet(res1.attrs[k]) = FrozenSet(res2.attrs[k])

\* C16: distinct() yields, in source order, exactly the first record of
\* every group of records with the same attribute names and the same set of
\* values per attribute; records that differ in the value of an attribute,
\* the dn included, are never merged.
C16_DistinctFirstOfEachGroup ==
    Called("distinct") =>
        callOut =
            AtPositions(callIn.src,
                {pos \in 0..(Len(callIn.src) - 1) :
                    \A before \in 1..pos :
                        ~SameGroup(callIn.src[before], callIn.src[pos + 1])})

(***************************************************************************)
(* The empty query: what is claimed of it.                                 *)
(***************************************************************************)
\* C17: every transformation or fetch applied to the empty query (filter,
\* exclude, select, distinct, annotate, order_by, a slice, an index, one(),
\* len(), iteration, aggregate) returns the empty query itself or a zero or
\* absent result, never raises, and never searches the directory.
C17_EmptyQueryAbsorbs ==
    (callDone /\ callIn.op \in (EmptyMethods \cup EmptyProtocols)
       /\ (callIn.op = "exclude" => callIn.nargs > 0)) =>
        /\ callOut.kind \in {"self", "value"}
        /\ ~callOut.searched

(***************************************************************************)
(* The 'in' lookup: what is claimed of it.                                 *)
(***************************************************************************)
\* The directory finds attribute field of rec equal to value.
FieldEquals(rec, field, value, ci) ==
    \E i \in 1..Len(EntryValues(rec, field)) :
        IF ci THEN Lower(EntryValues(rec, field)[i]) = Lower(value)
              ELSE EntryValues(rec, field)[i] = value

\* C18: an 'in' lookup with values V compiles to the OR of the equality
\* tests of the field against each member of V, to the one equality test
\* when V has one member, and so matches exactly the records whose field
\* equals a member of V; with no value it raises ValueError.
C18_InIsOrOfEqualities ==
    Called("compile") =>
        LET field == callIn.node.field
            V == callIn.node.value
            tests == [i \in 1..Len(V) |-> Item(field, EscapeFilterChars(V[i]))]
        IN  /\ V = <<>> => callOut.compiled = Raise("ValueError")
            /\ Len(V) = 1 => callOut.compiled = tests[1]
            /\ Len(V) >= 2 => callOut.compiled = [kind |-> "or", children |-> tests]
            /\ V # <<>> =>
                  (callOut.matched <=>
                     \E i \in 1..Len(V) : FieldEquals(callIn.rec, field, V[i], callIn.ci))

\* C18's case: a lookup with two values, one of them "*", has matched a
\* record through its second value.
C18_Witness ==
    /\ Called("compile")
    /\ callIn.node.value = << <<"*">>, <<"a">> >>
    /\ callIn.rec.attrs[Cn] = << <<"a">>, <<"b">> >>
    /\ callOut.compiled.kind = "or"
    /\ callOut.matched

(***************************************************************************)
(* The filter nodes combined: what is claimed of them.                     *)
(***************************************************************************)
\* What the call combines, and with which combinator.
Combines == Called("and") \/ Called("or") \/ Called("AndNode") \/ Called("OrNode") \/ Called("F")
CombinedKind == IF callIn.op \in {"or", "OrNode"} THEN "or" ELSE "and"
CombinedArgs == IF callIn.op = "F" THEN callIn.args \o callIn.kwargs ELSE callIn.args
\* The children a node brings to a combinator of that kind.
Unpack(node, kind) == IF node.kind = kind THEN node.children ELSE <<node>>
RECURSIVE UnpackAll(_, _)
UnpackAll(nodes, kind) ==
    IF nodes = <<>> THEN <<>>
    ELSE Unpack(nodes[1], kind) \o UnpackAll(Tail(nodes), kind)
Occurrences(q, x) == Cardinality({i \in 1..Len(q) : q[i] = x})
SameMultiset(p, q) ==
    /\ Len(p) = Len(q)
    /\ \A i \in 1..Len(p) : Occurrences(p, p[i]) = Occurrences(q, p[i])
\* Two or more nodes were combined and the constructor accepted them.
Combined == Combines /\ Len(CombinedArgs) >= 2 /\ callOut.kind = CombinedKind

\* C19 as claimed: combining nodes never nests, whichever operand is the
\* AND node and also through F(...) or the constructor: the result is one
\* AND node with the children of the operands as its children; the same
\* for OR.
C19_NeverNests ==
    Combined =>
        /\ SameMultiset(callOut.children, UnpackAll(CombinedArgs, CombinedKind))
        /\ \A i \in 1..Len(callOut.children) : callOut.children[i].kind # CombinedKind

\* C19 as the code has it: x & y with x an AND node is one AND node with the
\* children of x followed by y as one child; an AND node that is the right
\* operand, or an argument of the constructor or of F(...), becomes a child
\* as it is, so that unpacking the nested children gives the sequence
\* claimed; the same for OR.
C19_LeftOperandExtended ==
    Combined =>
        LET left == CombinedArgs[1]
            rest == Tail(CombinedArgs)
            kind == CombinedKind
        IN  /\ callIn.op \in {"and", "or"} =>
                  callOut.children = Unpack(left, kind) \o rest
            /\ callIn.op \notin {"and", "or"} => callOut.children = CombinedArgs
            /\ UnpackAll(callOut.children, kind) = UnpackAll(CombinedArgs, kind)

\* C19's case: an AND node was combined by & with an AND node, and the right
\* one is the third child of the result.
C19_Witness ==
    /\ Called("and")
    /\ callIn.args[1].kind = "and"
    /\ callIn.args[2].kind = "and"
    /\ Len(callOut.children) = 3
    /\ callOut.children[3] = callIn.args[2]

(***************************************************************************)
(* aggregate: what is claimed of it.                                       *)
(***************************************************************************)
\* Some aggregation drawn is without the attribute.
SomeWithout(attribute) ==
    \E i \in 1..Len(callIn.aggregations) : attribute \notin callIn.aggregations[i].has
\* The values of the attribute over all the records.
AllValues(records, attribute) ==
    UNION {Range(Get(records[j], attribute, <<>>)) : j \in 1..Len(records)}
\* What a sweep of the records from a clean state gives the aggregation.
CleanResult(agg, records) ==
    CASE agg.cls = "Count" -> IntVal(Len(records))
      [] agg.cls = "Max" ->
            IF AllValues(records, agg.attribute) = {} THEN ResultNone
            ELSE CHOOSE v \in AllValues(records, agg.attribute) :
                    \A w \in AllValues(records, agg.attribute) : w.val <= v.val
      [] agg.cls = "Min" ->
            IF AllValues(records, agg.attribute) = {} THEN ResultNone
            ELSE CHOOSE v \in AllValues(records, agg.attribute) :
                    \A w \in AllValues(records, agg.attribute) : v.val <= w.val
      [] OTHER -> Log([j \in 1..Len(records) |-> records[j].dn])
\* Every call that returned gave every aggregation reset and then each
\* record once, in order; a second call returned what the first did.
SweepsClean ==
    /\ \A c \in 1..Len(Returned) :
          ~IsRaise(Returned[c]) =>
              \A i \in 1..Len(callIn.aggregations) :
                  Returned[c].results[i] = CleanResult(callIn.aggregations[i], callIn.records)
    /\ \A c \in 1..Len(Returned) : IsRaise(Returned[c]) => Returned[c].error = "AttributeError"
    /\ (Len(Returned) = 2 /\ ~IsRaise(Returned[1])) => Returned[2] = Returned[1]

\* C20 as claimed: aggregate resets every aggregator, passes each record
\* once and in order to every aggregator and returns the results, a call
\* repeated with the same objects returns the same, and the call fails if
\* an aggregator is without reset, accumulate or result.
C20_FailsWithoutAny ==
    Called("aggregate") =>
        /\ SweepsClean
        /\ (SomeWithout("reset") \/ SomeWithout("accumulate") \/ SomeWithout("result")) =>
              \A c \in 1..Len(Returned) : IsRaise(Returned[c])

\* C20 as the code has it: the same, but an aggregator without accumulate
\* makes the call fail only when the query has a record; without any
\* record the call returns the results of the reset.
C20_FailsWithoutUsed ==
    Called("aggregate") =>
        /\ SweepsClean
        /\ \A c \in 1..Len(Returned) :
              IsRaise(Returned[c]) <=>
                 \/ SomeWithout("reset")
                 \/ SomeWithout("result")
                 \/ SomeWithout("accumulate") /\ callIn.records # <<>>

\* C20's case: a Count left at 2 and an aggregation of the caller's have
\* swept two records twice, and the second call returned what the first did.
C20_Witness ==
    /\ Called("aggregate")
    /\ callIn.aggregations = <<Count(IntVal(2)), Recorder(Capabilities, Log(<<>>))>>
    /\ Len(callIn.records) = 2
    /\ Len(Returned) = 2
    /\ ~IsRaise(Returned[2])
    /\ Returned[2].results[1] = IntVal(2)
    /\ Returned[2] = Returned[1]

(***************************************************************************)
(* The attribute dictionaries: what is claimed of them.                    *)
(***************************************************************************)
\* C21: every record a query yields maps every attribute name, dn and the
\* names added by annotate included, to a list of values, never to a bare
\* scalar: a value computed by annotate that is not a list is in a list of
\* one value.
C21_EveryValueIsASequence ==
    ((Called("search") \/ Called("annotate")) /\ callOut.raised = "none") =>
        \A i \in 1..Len(callOut.records) :
            \A k \in DOMAIN callOut.records[i] : callOut.records[i][k].type = "list"

(***************************************************************************)
(* Validation of the lookups: what is claimed of it.                       *)
(***************************************************************************)
RECURSIVE Expressions(_)
\* The expressions of a node.
Expressions(node) ==
    CASE node.kind = "expr" -> {node}
      [] node.kind \in {"and", "or"} ->
            UNION {Expressions(node.children[i]) : i \in 1..Len(node.children)}
      [] node.kind = "not" -> Expressions(node.child)
\* The lookup type of the expression is not one of the library's.
UnsupportedLookup(e) == e.lookup = "bogus"
\* The expression is an 'in' lookup without values.
EmptyIn(e) == e.lookup = "in" /\ e.value = <<>>

\* C22 as claimed: an unsupported lookup type and an empty 'in' set make
\* the filter() or exclude() call that introduces them raise.
C22_RaisedAtComposition ==
    ((Called("filter") \/ Called("exclude"))
        /\ \E e \in Expressions(callIn.node) : UnsupportedLookup(e) \/ EmptyIn(e))
    => callOut.query.kind = "raise"

\* C22 as the code has it: filter() and exclude() return a query whatever
\* the lookups; unless that query is the empty-result sentinel, its first
\* evaluation raises ValueError when a lookup type is unsupported, raises
\* ValueError only when a lookup is unsupported or an 'in' set is empty,
\* and raises it before any search; an empty 'in' set on a dn raises
\* nothing.
C22_RaisedAtFirstEvaluation ==
    (Called("filter") \/ Called("exclude")) =>
        /\ callOut.query.kind # "raise"
        /\ (IsEvaluated /\ callOut.query.kind = "query") =>
              /\ (\E e \in Expressions(callIn.node) : UnsupportedLookup(e))
                    => callOut.evaluated.raised = "ValueError"
              /\ callOut.evaluated.raised = "ValueError"
                    => /\ \E e \in Expressions(callIn.node) :
                              UnsupportedLookup(e) \/ EmptyIn(e)
                       /\ ~callOut.evaluated.searched
              /\ callOut.evaluated.raised \in {"none", "ValueError"}
              /\ callIn.node = Expression(DnKey, "in", <<>>)
                    => callOut.evaluated.raised = "none"
              /\ callIn.node = Expression(Cn, "in", <<>>)
                    => callOut.evaluated.raised = "ValueError"

\* C22's case: filter() was given an unsupported lookup, returned a query,
\* and the first evaluation of it raised ValueError without a search.
C22_Witness ==
    /\ Called("filter")
    /\ callIn.node = Expression(Cn, "bogus", <<"a">>)
    /\ callOut.query.kind = "query"
    /\ IsEvaluated
    /\ callOut.evaluated = Evaluated("ValueError", FALSE)

(***************************************************************************)
(* The fetch of a Query: what is claimed of it.                            *)
(***************************************************************************)
\* C23: each fetch of a Query acquires a connection of the pool, searches
\* with it, and has given it back when the fetch ends; the Query holds no
\* connection of its own from one fetch to the next.
C23_FetchAcquiresAndReleases ==
    Called("fetch") =>
        \A i \in 1..Len(Fetches) :
            /\ Fetches[i].raised = "none"
            /\ Fetches[i].acquired
            /\ Fetches[i].released
            /\ Fetches[i].searchedWith # "self._conn"

(***************************************************************************)
(* filter() with dn predicates: what is claimed of it.                     *)
(***************************************************************************)
\* The node is an exact dn predicate.
IsDnExact(node) ==
    node.kind = "expr" /\ Lower(node.field) = DnKey /\ LookupOf(node) = "exact"
\* The node is pushed to the directory as it is.
Pushable(node) == ~IsDnExact(node) /\ SplitNode(node) = Parts(node, None, None)
\* The dn is inside the search root of the query.
InsideRoot(dn, self) ==
    IF self.scope = "ENTITY" THEN Lower(dn) = Lower(self.base_dn)
    ELSE Under(dn, self.base_dn)
RECURSIVE Fields(_)
\* The attributes a compiled filter tests.
Fields(compiled) ==
    CASE compiled.kind = "item" -> {Lower(compiled.field)}
      [] compiled.kind \in {"and", "or"} ->
            UNION {Fields(compiled.children[i]) : i \in 1..Len(compiled.children)}
      [] compiled.kind = "not" -> Fields(compiled.child)

\* C24: filter() of an exact dn predicate ANDed with a predicate the
\* directory can test, the dn being inside the search root, returns a
\* Query that searches the entry of that dn alone, with a filter in which
\* the dn does not appear and to which the other predicate is ANDed.
C24_DnBecomesBaseOfEntitySearch ==
    (Called("dn") /\ callIn.node.kind = "and" /\ Len(callIn.node.children) = 2) =>
        \A i, j \in 1..2 :
            LET dn == callIn.node.children[i]
                other == callIn.node.children[j]
            IN  (i # j /\ IsDnExact(dn) /\ Pushable(other)
                       /\ InsideRoot(dn.value, callIn.self)) =>
                    /\ callOut.query.kind = "Query"
                    /\ callOut.query.scope = "ENTITY"
                    /\ Lower(callOut.query.base_dn) = Lower(dn.value)
                    /\ callIn.self.scope # "ENTITY" => callOut.query.base_dn = dn.value
                    /\ DnKey \notin Fields(CompileFilter(callOut.query.filter))
                    /\ callOut.query.filter = And_(callIn.self.filter, other)

\* C24's case: a dn under the base of a query of subtree scope was given
\* with cn = a, and the query returned has been run on the entry alone.
C24_Witness ==
    /\ Called("dn")
    /\ callIn.self = Query(<<"c">>, CatchAll, "SUBTREE")
    /\ callIn.node = AndNode(<<Expression(DnKey, "None", <<"b", ",", "a", ",", "c">>),
                               Expression(Cn, "None", <<"a">>)>>)
    /\ callOut.query.base_dn = <<"b", ",", "a", ",", "c">>
    /\ HasRun
    /\ Len(callOut.ran.records) = 1
    /\ callOut.ran.searches = 1

\* The exact dn predicate that filter() takes the node to hold, if any.
DnPart(node) == SplitNode(node).dn

\* C25: filter() of an exact dn predicate whose dn is not inside the search
\* root (or is not the base of a query of entity scope) returns the empty
\* query: it yields no record, has length 0, accepts further
\* transformations, and nothing searches the directory.
C25_OutsideRootGivesEmptyQuery ==
    (Called("dn") /\ DnPart(callIn.node) # None
                  /\ ~InsideRoot(DnPart(callIn.node).value, callIn.self)) =>
        /\ callOut.query = EmptyResult
        /\ EmptyOp("EmptyQuery.instance", "len", 0) = Returns("0")
        /\ \A op \in {"filter", "select", "distinct", "annotate", "order_by"} :
              EmptyOp("EmptyQuery.instance", op, 1).error = "none"
        /\ HasRun =>
              /\ callOut.ran.raised = "none"
              /\ callOut.ran.records = <<>>
              /\ callOut.ran.searches = 0

\* The exact dn predicates among the children of an AND node.
DnChildren(node) ==
    IF node.kind # "and" THEN {}
    ELSE {node.children[i] : i \in {j \in 1..Len(node.children) : IsDnExact(node.children[j])}}
\* The positions of those children.
DnPositions(node) ==
    IF node.kind # "and" THEN {}
    ELSE {j \in 1..Len(node.children) : IsDnExact(node.children[j])}
\* Two of the predicates name different entries.
Conflict(node) ==
    \E d, e \in DnChildren(node) : Lower(d.value) # Lower(e.value)

\* C26 as claimed: of two or more exact dn predicates ANDed in one filter()
\* call, predicates of different dns make the query empty without a search,
\* and predicates of one dn are checked locally.
C26_ConflictShortCircuits ==
    (Called("dn") /\ Cardinality(DnPositions(callIn.node)) >= 2) =>
        IF Conflict(callIn.node)
        THEN /\ callOut.query = EmptyResult
             /\ HasRun => callOut.ran.searches = 0
        ELSE /\ callOut.query.kind = "FilteredQuery"
             /\ DnChildren(callIn.node) \subseteq Expressions(callOut.query.filter)

\* C26 as the code has it: two or more exact dn predicates ANDed in one
\* filter() call are all checked locally, whether their dns differ or not,
\* over a Query of the base and scope filter() was called on; the search is
\* issued, and the records are those of it whose dn is every dn given, so
\* none when the dns differ.
C26_AllCheckedLocally ==
    (Called("dn") /\ Cardinality(DnPositions(callIn.node)) >= 2) =>
        /\ callOut.query.kind = "FilteredQuery"
        /\ DnChildren(callIn.node) \subseteq Expressions(callOut.query.filter)
        /\ callOut.query.query.kind = "Query"
        /\ callOut.query.query.base_dn = callIn.self.base_dn
        /\ callOut.query.query.scope = callIn.self.scope
        /\ HasRun =>
              /\ callOut.ran.raised = "none"
              /\ callOut.ran.searches = 1
              /\ \A i \in 1..Len(callOut.ran.records) :
                    \A d \in DnChildren(callIn.node) :
                        Lower(callOut.ran.records[i].dn) = Lower(d.value)
              /\ Conflict(callIn.node) => callOut.ran.records = <<>>

\* C26's case: two predicates of different dns were given, and the query
\* returned has searched the directory and yielded nothing.
C26_Witness ==
    /\ Called("dn")
    /\ callIn.self = Query(<<"c">>, CatchAll, "SUBTREE")
    /\ callIn.node = AndNode(<<Expression(DnKey, "None", <<"a", ",", "c">>),
                               Expression(DnKey, "None", <<"b", ",", "c">>)>>)
    /\ HasRun
    /\ callOut.ran = Ran("none", <<>>, 1)

\* C30: for a Query q of single-level or subtree scope and any dn d, the
\* records of q.filter(dn=d) are among the records of q; when d is not an
\* entry that the scope of q reaches, q.filter(dn=d) yields no record.
C30_FilterByDnYieldsSubset ==
    (Called("dn") /\ IsDnExact(callIn.node) /\ callIn.self.scope # "ENTITY"
                  /\ HasRun /\ SelfHasRun /\ callOut.selfRan.raised = "none") =>
        /\ callOut.ran.raised = "none"
        /\ Range(callOut.ran.records) \subseteq Range(callOut.selfRan.records)
        /\ ~InScope(callIn.node.value, callIn.self.base_dn, callIn.self.scope)
              => callOut.ran.records = <<>>

\* C27: iterating a slice [low:high:step] with a finite high takes at most
\* the first high records, plus at most one, of the underlying query: no
\* source record beyond position high is fetched or materialized.
C27_SliceStreams ==
    (Called("stream") /\ callIn.high # NoHigh) =>
        /\ callOut.fetched <= callIn.high[1] + 1
        /\ callOut.materialized <= callIn.high[1] + 1

\* The names of the computed attributes of the query filter is called on.
Computed == AnnotationNames(callIn.self.annotations)
\* The two parts filter splits the node into.
SplitOf == AnnotatedSplit(callIn.node, Computed)
\* list(self), the AnnotatedQuery without the filter.
Unfiltered == RunAnnotatedOf(callIn.self, Directory)

\* The attributes a node mentions.
FieldsOf(node) == IF node = None THEN {} ELSE {e.field : e \in Expressions(node)}

\* The part pushed upstream mentions no computed attribute, every child of
\* an AND lands in the part its attributes put it in, and an OR or a NOT
\* that mentions a computed attribute is the local part, whole.
Routed ==
    /\ SplitOf.left # None => FieldsOf(SplitOf.left) \cap Computed = {}
    /\ (SplitOf.right # None /\ SplitOf.right.kind = "expr") =>
            SplitOf.right.field \in Computed
    /\ (callIn.node.kind \in {"or", "not"} /\ FieldsOf(callIn.node) \cap Computed # {}) =>
            SplitOf = [left |-> None, right |-> callIn.node]
    /\ callOut.query =
            LET upstream == IF SplitOf.left # None
                            THEN AnnotatedQuery(FilterOf(callIn.self.query, SplitOf.left),
                                                callIn.self.annotations)
                            ELSE callIn.self
            IN  IF SplitOf.right # None THEN FilteredQuery(upstream, SplitOf.right)
                ELSE upstream

\* C28: AnnotatedQuery.filter(n) pushes the part of n on non-computed
\* attributes to the upstream query and applies the part on computed
\* attributes after annotation, an OR or NOT that mentions a computed
\* attribute wholly so; the records yielded are exactly the annotated
\* records of the unfiltered query on which n is true.
C28_FilterSplitsAndKeepsMeaning ==
    (Called("annotated") /\ callOut.ran # NoCall /\ Unfiltered.raised = "none") =>
        /\ Routed
        /\ callOut.ran.raised = "none"
        /\ callOut.ran.records =
               SelectSeq(Unfiltered.records, LAMBDA rec : LocalEval(callIn.node, rec))

\* C29: once a Query q has been iterated, iterating a query derived from
\* it (annotate, filter, select, order_by, distinct, slice) leaves the
\* cached snapshot of q as it was: a later iteration of q yields records
\* equal, attribute for attribute, to those of the first.
C29_SnapshotKept ==
    (Called("snapshot") /\ callOut.step = "again") => callOut.again = callOut.first

====
